---- MODULE Spec2Model ----
(***************************************************************************)
(* Housing-support case management: the financial tables, the read-side    *)
(* aggregations of server/routes.ts (dashboard metrics, pool-fund summary) *)
(* and the handlers that mutate financial rows behind the lock flag and    *)
(* the service-agreement gate.                                             *)
(*                                                                         *)
(* Money: the numeric(12,2) columns come back from the driver as decimal   *)
(* strings and every handler turns them into numbers with parseFloat.      *)
(* Amounts are drawn from whole dollars, which a double holds and adds     *)
(* exactly, so an amount is modelled by the integer parseFloat yields.  A  *)
(* nullable column is a sequence of length 0 (NULL) or 1.                  *)
(***************************************************************************)
EXTENDS Integers, Sequences, FiniteSets, TLC

VARIABLES
    clients,          \* table clients, in the order getClients() returns it
    clientMonths,     \* table client_months
    housingSupports,  \* table housing_supports
    rentPayments,     \* table rent_payments
    lthPayments,      \* table lth_payments
    expenses,         \* table expenses
    clientDocuments,  \* table client_documents
    auditLogs,        \* table audit_logs
    clientHistories,  \* table client_histories
    nextId,           \* the ids gen_random_uuid() has handed out so far, plus one
    now,              \* the server clock (new Date()), in days
    faults,           \* the storage writes that throw (database errors)
    response          \* the last request served, with its response

vars == <<clients, clientMonths, housingSupports, rentPayments, lthPayments,
          expenses, clientDocuments, auditLogs, clientHistories, nextId, now,
          faults, response>>

stored == <<clients, clientMonths, housingSupports, rentPayments, lthPayments,
            expenses, clientDocuments, auditLogs, clientHistories, nextId, now,
            faults>>

(***************************************************************************)
(* Bounds of the model.                                                    *)
(***************************************************************************)
NumClients == 2
MaxClientMonths == 2
MaxExpenses == 1

ClientIds == 1..NumClients
PeriodSeq == << <<2025, 3>>, <<2025, 4>>, <<2024, 3>> >>
HsVals == {200}
RentVals == {200}
ExpVals == {100}

\* the clock counts days since 2024-01-01: 2024-03 ends on day 91, 2025-03
\* on day 456 and 2025-04 on day 486
Instants == {470, 500, 530}
FirstInstant == CHOOSE t \in Instants : \A u \in Instants : t <= u
ExpiryDates == {480, 500}
EarlyExpiry == CHOOSE e \in ExpiryDates : \A f \in ExpiryDates : e <= f
LateExpiry == CHOOSE e \in ExpiryDates : \A f \in ExpiryDates : f <= e
Amounts == {100, 200}
Users == {[userId |-> "u1", role |-> "admin"],
          [userId |-> "u2", role |-> "super_admin"]}

\* an absent query parameter (undefined)
NoParam == 0
NoCounty == ""

Opt(S) == {<<>>} \cup {<<v>> : v \in S}

RECURSIVE SumFn(_, _)
SumFn(f, S) ==
    IF S = {} THEN 0
    ELSE LET x == CHOOSE y \in S : TRUE IN f[x] + SumFn(f, S \ {x})

Range(s) == {s[i] : i \in 1..Len(s)}

(***************************************************************************)
(* storage.ts: the queries the handlers use.  A query returning one row    *)
(* ("const [row] = await db.select()...") yields a sequence of length 0    *)
(* or 1: the first matching row.                                           *)
(***************************************************************************)
First(rows) == IF rows = <<>> THEN <<>> ELSE <<rows[1]>>

getClients == clients

getClient(id) == First(SelectSeq(clients, LAMBDA c : c.id = id))

getClientMonth(id) == First(SelectSeq(clientMonths, LAMBDA cm : cm.id = id))

getClientMonths(clientId) ==
    SelectSeq(clientMonths, LAMBDA cm : cm.clientId = clientId)

getClientMonthByPeriod(clientId, year, month) ==
    First(SelectSeq(clientMonths,
        LAMBDA cm : cm.clientId = clientId /\ cm.year = year /\ cm.month = month))

getHousingSupport(clientMonthId) ==
    First(SelectSeq(housingSupports, LAMBDA h : h.clientMonthId = clientMonthId))

getRentPayment(clientMonthId) ==
    First(SelectSeq(rentPayments, LAMBDA r : r.clientMonthId = clientMonthId))

getExpenses(clientMonthId) ==
    SelectSeq(expenses, LAMBDA e : e.clientMonthId = clientMonthId)

getLthPayments(clientMonthId) ==
    SelectSeq(lthPayments, LAMBDA p : p.clientMonthId = clientMonthId)

getClientDocuments(clientId) ==
    SelectSeq(clientDocuments, LAMBDA d : d.clientId = clientId)

(***************************************************************************)
(* parseFloat(x || "0"): NULL gives 0, a decimal string its value.         *)
(***************************************************************************)
parseFloatOrZero(col) == IF col = <<>> THEN 0 ELSE col[1]

\* expenses.reduce((sum, e) => sum + parseFloat(e.amount || "0"), 0)
RECURSIVE reduceAmounts(_, _, _)
reduceAmounts(rows, i, sum) ==
    IF i > Len(rows) THEN sum
    ELSE reduceAmounts(rows, i + 1, sum + parseFloatOrZero(rows[i].amount))

\* the three amounts every aggregation reads for one client-month
hsAmountOf(cmId) ==
    LET hs == getHousingSupport(cmId)
    IN  IF hs # <<>> THEN parseFloatOrZero(hs[1].amount) ELSE 0

rentAmountOf(cmId) ==
    LET rent == getRentPayment(cmId)
    IN  IF rent # <<>> THEN parseFloatOrZero(rent[1].paidAmount) ELSE 0

expensesAmountOf(cmId) ==
    LET exps == getExpenses(cmId)
    IN  IF Len(exps) > 0 THEN reduceAmounts(exps, 1, 0) ELSE 0

(***************************************************************************)
(* GET /api/dashboard/metrics                                              *)
(***************************************************************************)
\* the filter of relevantMonths; query = [filter, year, month]
dashboardRelevant(cm, query) ==
    IF query.filter = "month" /\ query.year # NoParam /\ query.month # NoParam
    THEN cm.year = query.year /\ cm.month = query.month
    ELSE IF query.filter = "year" /\ query.year # NoParam
    THEN cm.year = query.year
    ELSE TRUE

\* the rule without its housing-support condition
dashboardIncludedAnyDeduction(hsAmount, rentAmount, expensesAmount) ==
    rentAmount > 0 \/ expensesAmount > 0

\* the Pool Fund rule of the dashboard, on one month's amounts
dashboardIncluded(hsAmount, rentAmount, expensesAmount) ==
    hsAmount > 0 /\ (rentAmount > 0 \/ expensesAmount > 0)

\* the pool amount clamped at zero
monthPoolFundClamped(hsAmount, rentAmount, expensesAmount) ==
    IF hsAmount - (rentAmount + expensesAmount) < 0 THEN 0
    ELSE hsAmount - (rentAmount + expensesAmount)

\* const monthPoolFund = hsAmount - (rentAmount + expensesAmount)
monthPoolFund(hsAmount, rentAmount, expensesAmount) ==
    hsAmount - (rentAmount + expensesAmount)

\* the balance term gated by the Pool Fund rule
monthRemainingBalanceGated(hsAmount, rentAmount, expensesAmount) ==
    IF hsAmount > 0 /\ (rentAmount > 0 \/ expensesAmount > 0)
    THEN hsAmount - rentAmount - expensesAmount
    ELSE 0

\* the term added to totalRemainingBalance for every month
monthRemainingBalance(hsAmount, rentAmount, expensesAmount) ==
    hsAmount - rentAmount - expensesAmount

\* one iteration of "for (const cm of relevantMonths)"
dashboardMonth(acc, client, cm) ==
    LET hsAmount == hsAmountOf(cm.id)
        rentAmount == rentAmountOf(cm.id)
        expensesAmount == expensesAmountOf(cm.id)
        counted == dashboardIncluded(hsAmount, rentAmount, expensesAmount)
    IN  [totalHousingSupport |-> acc.totalHousingSupport + hsAmount,
         totalRentPaid |-> acc.totalRentPaid + rentAmount,
         totalExpenses |-> acc.totalExpenses + expensesAmount,
         totalRemainingBalance |->
             acc.totalRemainingBalance
             + monthRemainingBalance(hsAmount, rentAmount, expensesAmount),
         totalPoolFund |->
             IF counted
             THEN acc.totalPoolFund
                  + monthPoolFund(hsAmount, rentAmount, expensesAmount)
             ELSE acc.totalPoolFund,
         poolContributorSet |->
             IF counted THEN acc.poolContributorSet \cup {client.id}
             ELSE acc.poolContributorSet]

RECURSIVE dashboardMonths(_, _, _, _)
dashboardMonths(acc, client, months, i) ==
    IF i > Len(months) THEN acc
    ELSE dashboardMonths(dashboardMonth(acc, client, months[i]), client, months, i + 1)

RECURSIVE dashboardClients(_, _, _, _)
dashboardClients(acc, cs, i, query) ==
    IF i > Len(cs) THEN acc
    ELSE LET relevantMonths ==
                 SelectSeq(getClientMonths(cs[i].id),
                           LAMBDA cm : dashboardRelevant(cm, query))
         IN  dashboardClients(dashboardMonths(acc, cs[i], relevantMonths, 1),
                              cs, i + 1, query)

dashboardMetrics(query) ==
    LET acc == dashboardClients(
                   [totalHousingSupport |-> 0, totalRentPaid |-> 0,
                    totalExpenses |-> 0, totalRemainingBalance |-> 0,
                    totalPoolFund |-> 0, poolContributorSet |-> {}],
                   getClients, 1, query)
    IN  [kind |-> "dashboard",
         query |-> query,
         totalClients |-> Len(getClients),
         totalHousingSupport |-> acc.totalHousingSupport,
         totalRentPaid |-> acc.totalRentPaid,
         totalExpenses |-> acc.totalExpenses,
         totalPoolFund |-> acc.totalPoolFund,
         totalRemainingBalance |-> acc.totalRemainingBalance,
         poolContributors |-> Cardinality(acc.poolContributorSet)]

(***************************************************************************)
(* GET /api/pool-fund-summary                                              *)
(***************************************************************************)
\* the filter of relevantMonths; query = [year, month, countyId]
summaryRelevant(cm, query) ==
    IF query.month # NoParam
    THEN cm.year = query.year /\ cm.month = query.month
    ELSE cm.year = query.year

\* one iteration of "for (const cm of relevantMonths)": the per-client sums
RECURSIVE summaryMonths(_, _, _)
summaryMonths(acc, months, i) ==
    IF i > Len(months) THEN acc
    ELSE summaryMonths(
             [clientHousingSupport |->
                  acc.clientHousingSupport + hsAmountOf(months[i].id),
              clientRentPaid |-> acc.clientRentPaid + rentAmountOf(months[i].id),
              clientExpenses |->
                  acc.clientExpenses
                  + reduceAmounts(getExpenses(months[i].id), 1, 0)],
             months, i + 1)

\* a zero pool amount counted as negative
isPositiveContributorStrict(poolAmount) == poolAmount > 0

\* "if (poolAmount >= 0) positiveContributors++ else negativeContributors++"
isPositiveContributor(poolAmount) == poolAmount >= 0

\* one iteration of "for (const client of filteredClients)"
summaryClient(acc, client, query) ==
    LET relevantMonths ==
            SelectSeq(getClientMonths(client.id),
                      LAMBDA cm : summaryRelevant(cm, query))
        sums == summaryMonths([clientHousingSupport |-> 0, clientRentPaid |-> 0,
                               clientExpenses |-> 0], relevantMonths, 1)
        hasHousingSupport == sums.clientHousingSupport > 0
        hasRentOrExpenses == sums.clientRentPaid > 0 \/ sums.clientExpenses > 0
        poolAmount ==
            sums.clientHousingSupport - (sums.clientRentPaid + sums.clientExpenses)
    IN  IF Len(relevantMonths) = 0 THEN acc
        ELSE IF hasHousingSupport /\ hasRentOrExpenses
        THEN [contributions |->
                  Append(acc.contributions,
                         [clientId |-> client.id,
                          county |-> client.countyId,
                          housingSupport |-> sums.clientHousingSupport,
                          rentPaid |-> sums.clientRentPaid,
                          expenses |-> sums.clientExpenses,
                          poolAmount |-> poolAmount]),
              totalPoolFund |-> acc.totalPoolFund + poolAmount,
              positiveContributors |->
                  IF isPositiveContributor(poolAmount)
                  THEN acc.positiveContributors + 1
                  ELSE acc.positiveContributors,
              negativeContributors |->
                  IF isPositiveContributor(poolAmount)
                  THEN acc.negativeContributors
                  ELSE acc.negativeContributors + 1]
        ELSE acc

RECURSIVE summaryClients(_, _, _, _)
summaryClients(acc, cs, i, query) ==
    IF i > Len(cs) THEN acc
    ELSE summaryClients(summaryClient(acc, cs[i], query), cs, i + 1, query)

\* the comparator of contributions.sort: (a, b) => b.poolAmount - a.poolAmount
sortCompare(a, b) == b.poolAmount - a.poolAmount

\* Array.prototype.sort is stable: an element goes behind every element the
\* comparator does not order after it
RECURSIVE insertSortedUnstable(_, _, _)
insertSortedUnstable(sorted, x, i) ==
    IF i > Len(sorted) THEN Append(sorted, x)
    ELSE IF sortCompare(sorted[i], x) >= 0
    THEN SubSeq(sorted, 1, i - 1) \o <<x>> \o SubSeq(sorted, i, Len(sorted))
    ELSE insertSortedUnstable(sorted, x, i + 1)

RECURSIVE insertSorted(_, _, _)
insertSorted(sorted, x, i) ==
    IF i > Len(sorted) THEN Append(sorted, x)
    ELSE IF sortCompare(sorted[i], x) > 0
    THEN SubSeq(sorted, 1, i - 1) \o <<x>> \o SubSeq(sorted, i, Len(sorted))
    ELSE insertSorted(sorted, x, i + 1)

RECURSIVE sortContributions(_, _, _)
sortContributions(list, i, sorted) ==
    IF i > Len(list) THEN sorted
    ELSE sortContributions(list, i + 1, insertSorted(sorted, list[i], 1))

poolFundSummary(query) ==
    LET filteredClients ==
            IF query.countyId # NoCounty
            THEN SelectSeq(getClients, LAMBDA c : c.countyId = query.countyId)
            ELSE getClients
        acc == summaryClients([contributions |-> <<>>, totalPoolFund |-> 0,
                               positiveContributors |-> 0,
                               negativeContributors |-> 0],
                              filteredClients, 1, query)
        contributions == sortContributions(acc.contributions, 1, <<>>)
    IN  [kind |-> "poolFundSummary",
         query |-> query,
         totalPoolFund |-> acc.totalPoolFund,
         totalContributors |-> Len(contributions),
         positiveContributors |-> acc.positiveContributors,
         negativeContributors |-> acc.negativeContributors,
         contributions |-> contributions]

(***************************************************************************)
(* createAuditEntry, trackClientChange and the service-agreement gate      *)
(***************************************************************************)
\* an audit log that keeps the latest entry only
createAuditEntryLatestOnly(logs, userId, actionType, entity, entityId, oldData, newData) ==
    IF "createAuditLog" \in faults THEN logs
    ELSE <<[userId |-> userId, actionType |-> actionType,
            entity |-> entity, entityId |-> entityId,
            oldData |-> oldData, newData |-> newData]>>

\* try { storage.createAuditLog(...) } catch { console.error }: one row
\* appended to audit_logs, or nothing when the insert throws
createAuditEntry(logs, userId, actionType, entity, entityId, oldData, newData) ==
    IF "createAuditLog" \in faults THEN logs
    ELSE Append(logs, [userId |-> userId, actionType |-> actionType,
                       entity |-> entity, entityId |-> entityId,
                       oldData |-> oldData, newData |-> newData])

\* try { storage.createClientHistory(...) } catch { console.error }: one row
\* appended to client_histories, or nothing when the insert throws
trackClientChange(histories, clientId, fieldChanged, oldValue, newValue, changedBy) ==
    IF "createClientHistory" \in faults THEN histories
    ELSE Append(histories, [clientId |-> clientId, fieldChanged |-> fieldChanged,
                            oldValue |-> oldValue, newValue |-> newValue,
                            changedBy |-> changedBy])

\* the template `$${amount}`; `$${paidAmount || "0"}` for a nullable column
dollar(col) == <<"$", parseFloatOrZero(col)>>

\* (a, b) => new Date(b.expiryDate).getTime() - new Date(a.expiryDate).getTime()
expiryCompare(a, b) == b.expiryDate[1] - a.expiryDate[1]

RECURSIVE insertByExpiry(_, _, _)
insertByExpiry(sorted, d, i) ==
    IF i > Len(sorted) THEN Append(sorted, d)
    ELSE IF expiryCompare(sorted[i], d) > 0
    THEN SubSeq(sorted, 1, i - 1) \o <<d>> \o SubSeq(sorted, i, Len(sorted))
    ELSE insertByExpiry(sorted, d, i + 1)

RECURSIVE sortByExpiry(_, _, _)
sortByExpiry(docs, i, sorted) ==
    IF i > Len(docs) THEN sorted
    ELSE sortByExpiry(docs, i + 1, insertByExpiry(sorted, docs[i], 1))

\* the gate that takes the first service agreement with an expiry date
\* instead of the latest one
isServiceAgreementBlockedFirstDoc(clientId, userRole) ==
    IF userRole = "super_admin" THEN FALSE
    ELSE LET withExpiry ==
                 SelectSeq(getClientDocuments(clientId),
                     LAMBDA d : d.documentType = "SERVICE_AGREEMENT"
                                /\ d.expiryDate # <<>>)
         IN  IF withExpiry = <<>> THEN FALSE
             ELSE IF withExpiry[1].expiryDate[1] >= now THEN FALSE
             ELSE LET client == getClient(clientId)
                  IN  ~(client # <<>> /\ client[1].statusOverride = <<"active">>)

\* the gate with the expiry comparison turned around
isServiceAgreementBlockedReversed(clientId, userRole) ==
    IF userRole = "super_admin" THEN FALSE
    ELSE LET sorted ==
                 sortByExpiry(
                     SelectSeq(getClientDocuments(clientId),
                         LAMBDA d : d.documentType = "SERVICE_AGREEMENT"
                                    /\ d.expiryDate # <<>>),
                     1, <<>>)
         IN  IF sorted = <<>> THEN FALSE
             ELSE IF sorted[1].expiryDate[1] <= now THEN FALSE
             ELSE LET client == getClient(clientId)
                  IN  ~(client # <<>> /\ client[1].statusOverride = <<"active">>)

isServiceAgreementBlocked(clientId, userRole) ==
    IF userRole = "super_admin" THEN FALSE
    ELSE LET docs == getClientDocuments(clientId)
             sorted ==
                 sortByExpiry(
                     SelectSeq(docs,
                         LAMBDA d : d.documentType = "SERVICE_AGREEMENT"
                                    /\ d.expiryDate # <<>>),
                     1, <<>>)
         IN  IF sorted = <<>> THEN FALSE
             ELSE LET saDoc == sorted[1]
                      expiry == saDoc.expiryDate[1]
                  IN  IF expiry >= now THEN FALSE
                      ELSE LET client == getClient(clientId)
                           IN  IF client # <<>>
                                  /\ client[1].statusOverride = <<"active">>
                               THEN FALSE
                               ELSE TRUE

(***************************************************************************)
(* The single-record endpoints of the financial tables.  A request is the  *)
(* authenticated user and the validated body; the response records the     *)
(* request it answers.                                                     *)
(***************************************************************************)
getRowById(table, id) == First(SelectSeq(table, LAMBDA r : r.id = id))

\* db.update(table).set(data).where(eq(table.id, id))
updateRow(table, id, field, value) ==
    [i \in 1..Len(table) |->
        IF table[i].id = id THEN [table[i] EXCEPT ![field] = value] ELSE table[i]]

\* the by-id lookups the update routes call before they write; the storage
\* module does not carry them, they are modelled as the lookup by primary key
getHousingSupportById(id) == getRowById(housingSupports, id)
getRentPaymentById(id) == getRowById(rentPayments, id)
getLthPaymentById(id) == getRowById(lthPayments, id)
getExpenseById(id) == getRowById(expenses, id)

ExistingIds(table) == {table[i].id : i \in 1..Len(table)}

\* POST /api/housing-supports with the row, the audit entry and the history
\* entry written in one transaction: a failed log write undoes the row
PostHousingSupportsAtomic ==
    \E user \in Users, clientMonthId \in ExistingIds(clientMonths), amount \in Amounts :
        LET request == [user |-> user, clientMonthId |-> clientMonthId,
                        amount |-> amount]
            cm == getClientMonth(clientMonthId)
            support == [id |-> nextId, clientMonthId |-> clientMonthId,
                        amount |-> <<amount>>]
        IN  IF cm # <<>> /\ isServiceAgreementBlocked(cm[1].clientId, user.role)
            THEN /\ response' = [kind |-> "POST /api/housing-supports",
                                 request |-> request, status |-> 403]
                 /\ UNCHANGED stored
            ELSE IF faults # {}
            THEN /\ response' = [kind |-> "POST /api/housing-supports",
                                 request |-> request, status |-> 500]
                 /\ UNCHANGED stored
            ELSE /\ housingSupports' = Append(housingSupports, support)
                 /\ nextId' = nextId + 1
                 /\ auditLogs' = createAuditEntry(auditLogs, user.userId, "create",
                                     "housing_support", <<support.id>>, <<>>, <<support>>)
                 /\ clientHistories' =
                        IF cm # <<>>
                        THEN trackClientChange(clientHistories, cm[1].clientId,
                                 "Housing Support Added", <<>>, dollar(<<amount>>),
                                 user.userId)
                        ELSE clientHistories
                 /\ response' = [kind |-> "POST /api/housing-supports",
                                 request |-> request, status |-> 201,
                                 body |-> support]
                 /\ UNCHANGED <<faults, clients, clientMonths, rentPayments, lthPayments,
                                expenses, clientDocuments, now>>

\* POST /api/housing-supports
PostHousingSupports ==
    \E user \in Users, clientMonthId \in ExistingIds(clientMonths), amount \in Amounts :
        LET request == [user |-> user, clientMonthId |-> clientMonthId,
                        amount |-> amount]
            cm == getClientMonth(clientMonthId)
            support == [id |-> nextId, clientMonthId |-> clientMonthId,
                        amount |-> <<amount>>]
        IN  IF cm # <<>> /\ isServiceAgreementBlocked(cm[1].clientId, user.role)
            THEN /\ response' = [kind |-> "POST /api/housing-supports",
                                 request |-> request, status |-> 403]
                 /\ UNCHANGED stored
            ELSE /\ housingSupports' = Append(housingSupports, support)
                 /\ nextId' = nextId + 1
                 /\ auditLogs' = createAuditEntry(auditLogs, user.userId, "create",
                                     "housing_support", <<support.id>>, <<>>, <<support>>)
                 /\ clientHistories' =
                        IF cm # <<>>
                        THEN trackClientChange(clientHistories, cm[1].clientId,
                                 "Housing Support Added", <<>>, dollar(<<amount>>),
                                 user.userId)
                        ELSE clientHistories
                 /\ response' = [kind |-> "POST /api/housing-supports",
                                 request |-> request, status |-> 201,
                                 body |-> support]
                 /\ UNCHANGED <<faults, clients, clientMonths, rentPayments, lthPayments,
                                expenses, clientDocuments, now>>

\* PATCH /api/housing-supports/:id
PatchHousingSupports ==
    \E user \in Users, id \in ExistingIds(housingSupports) \cup {0}, amount \in Amounts :
        LET request == [user |-> user, id |-> id, amount |-> amount]
            oldSupport == getHousingSupportById(id)
            updated == updateRow(housingSupports, id, "amount", <<amount>>)
            support == getRowById(updated, id)
            cm == IF oldSupport # <<>> THEN getClientMonth(oldSupport[1].clientMonthId)
                  ELSE <<>>
        IN  IF support = <<>>
            THEN /\ response' = [kind |-> "PATCH /api/housing-supports/:id",
                                 request |-> request, status |-> 404]
                 /\ UNCHANGED stored
            ELSE /\ housingSupports' = updated
                 /\ auditLogs' = createAuditEntry(auditLogs, user.userId, "update",
                                     "housing_support", <<id>>, oldSupport, support)
                 /\ clientHistories' =
                        IF oldSupport # <<>> /\ cm # <<>>
                           /\ oldSupport[1].amount # support[1].amount
                        THEN trackClientChange(clientHistories, cm[1].clientId,
                                 "Housing Support", dollar(oldSupport[1].amount),
                                 dollar(support[1].amount), user.userId)
                        ELSE clientHistories
                 /\ response' = [kind |-> "PATCH /api/housing-supports/:id",
                                 request |-> request, status |-> 200,
                                 body |-> support[1]]
                 /\ UNCHANGED <<faults, clients, clientMonths, rentPayments, lthPayments,
                                expenses, clientDocuments, nextId, now>>

\* POST /api/rent-payments
PostRentPayments ==
    \E user \in Users, clientMonthId \in ExistingIds(clientMonths), amount \in Amounts :
        LET request == [user |-> user, clientMonthId |-> clientMonthId,
                        amount |-> amount]
            cm == getClientMonth(clientMonthId)
            payment == [id |-> nextId, clientMonthId |-> clientMonthId,
                        paidAmount |-> <<amount>>]
        IN  IF cm # <<>> /\ isServiceAgreementBlocked(cm[1].clientId, user.role)
            THEN /\ response' = [kind |-> "POST /api/rent-payments",
                                 request |-> request, status |-> 403]
                 /\ UNCHANGED stored
            ELSE /\ rentPayments' = Append(rentPayments, payment)
                 /\ nextId' = nextId + 1
                 /\ auditLogs' = createAuditEntry(auditLogs, user.userId, "create",
                                     "rent_payment", <<payment.id>>, <<>>, <<payment>>)
                 /\ clientHistories' =
                        IF cm # <<>>
                        THEN trackClientChange(clientHistories, cm[1].clientId,
                                 "Rent Payment Added", <<>>, dollar(<<amount>>),
                                 user.userId)
                        ELSE clientHistories
                 /\ response' = [kind |-> "POST /api/rent-payments",
                                 request |-> request, status |-> 201,
                                 body |-> payment]
                 /\ UNCHANGED <<faults, clients, clientMonths, housingSupports, lthPayments,
                                expenses, clientDocuments, now>>

\* PATCH /api/rent-payments/:id
PatchRentPayments ==
    \E user \in Users, id \in ExistingIds(rentPayments) \cup {0}, amount \in Amounts :
        LET request == [user |-> user, id |-> id, amount |-> amount]
            oldPayment == getRentPaymentById(id)
            updated == updateRow(rentPayments, id, "paidAmount", <<amount>>)
            payment == getRowById(updated, id)
            cm == IF oldPayment # <<>> THEN getClientMonth(oldPayment[1].clientMonthId)
                  ELSE <<>>
        IN  IF payment = <<>>
            THEN /\ response' = [kind |-> "PATCH /api/rent-payments/:id",
                                 request |-> request, status |-> 404]
                 /\ UNCHANGED stored
            ELSE /\ rentPayments' = updated
                 /\ auditLogs' = createAuditEntry(auditLogs, user.userId, "update",
                                     "rent_payment", <<id>>, oldPayment, payment)
                 /\ clientHistories' =
                        IF oldPayment # <<>> /\ cm # <<>>
                           /\ oldPayment[1].paidAmount # payment[1].paidAmount
                        THEN trackClientChange(clientHistories, cm[1].clientId,
                                 "Rent Payment", dollar(oldPayment[1].paidAmount),
                                 dollar(payment[1].paidAmount), user.userId)
                        ELSE clientHistories
                 /\ response' = [kind |-> "PATCH /api/rent-payments/:id",
                                 request |-> request, status |-> 200,
                                 body |-> payment[1]]
                 /\ UNCHANGED <<faults, clients, clientMonths, housingSupports, lthPayments,
                                expenses, clientDocuments, nextId, now>>

\* POST /api/lth-payments
PostLthPayments ==
    \E user \in Users, clientMonthId \in ExistingIds(clientMonths), amount \in Amounts :
        LET request == [user |-> user, clientMonthId |-> clientMonthId,
                        amount |-> amount]
            cm == getClientMonth(clientMonthId)
            payment == [id |-> nextId, clientMonthId |-> clientMonthId,
                        amount |-> <<amount>>]
        IN  IF cm # <<>> /\ isServiceAgreementBlocked(cm[1].clientId, user.role)
            THEN /\ response' = [kind |-> "POST /api/lth-payments",
                                 request |-> request, status |-> 403]
                 /\ UNCHANGED stored
            ELSE /\ lthPayments' = Append(lthPayments, payment)
                 /\ nextId' = nextId + 1
                 /\ auditLogs' = createAuditEntry(auditLogs, user.userId, "create",
                                     "lth_payment", <<payment.id>>, <<>>, <<payment>>)
                 /\ clientHistories' =
                        IF cm # <<>>
                        THEN trackClientChange(clientHistories, cm[1].clientId,
                                 "LTH Payment Added", <<>>, dollar(<<amount>>),
                                 user.userId)
                        ELSE clientHistories
                 /\ response' = [kind |-> "POST /api/lth-payments",
                                 request |-> request, status |-> 201,
                                 body |-> payment]
                 /\ UNCHANGED <<faults, clients, clientMonths, housingSupports, rentPayments,
                                expenses, clientDocuments, now>>

\* PATCH /api/lth-payments/:id
PatchLthPayments ==
    \E user \in Users, id \in ExistingIds(lthPayments) \cup {0}, amount \in Amounts :
        LET request == [user |-> user, id |-> id, amount |-> amount]
            oldPayment == getLthPaymentById(id)
            updated == updateRow(lthPayments, id, "amount", <<amount>>)
            payment == getRowById(updated, id)
            cm == IF oldPayment # <<>> THEN getClientMonth(oldPayment[1].clientMonthId)
                  ELSE <<>>
        IN  IF payment = <<>>
            THEN /\ response' = [kind |-> "PATCH /api/lth-payments/:id",
                                 request |-> request, status |-> 404]
                 /\ UNCHANGED stored
            ELSE /\ lthPayments' = updated
                 /\ auditLogs' = createAuditEntry(auditLogs, user.userId, "update",
                                     "lth_payment", <<id>>, oldPayment, payment)
                 /\ clientHistories' =
                        IF oldPayment # <<>> /\ cm # <<>>
                           /\ oldPayment[1].amount # payment[1].amount
                        THEN trackClientChange(clientHistories, cm[1].clientId,
                                 "LTH Payment", dollar(oldPayment[1].amount),
                                 dollar(payment[1].amount), user.userId)
                        ELSE clientHistories
                 /\ response' = [kind |-> "PATCH /api/lth-payments/:id",
                                 request |-> request, status |-> 200,
                                 body |-> payment[1]]
                 /\ UNCHANGED <<faults, clients, clientMonths, housingSupports, rentPayments,
                                expenses, clientDocuments, nextId, now>>

\* POST /api/expenses
PostExpenses ==
    \E user \in Users, clientMonthId \in ExistingIds(clientMonths), amount \in Amounts :
        LET request == [user |-> user, clientMonthId |-> clientMonthId,
                        amount |-> amount]
            cm == getClientMonth(clientMonthId)
            expense == [id |-> nextId, clientMonthId |-> clientMonthId,
                        amount |-> <<amount>>]
        IN  IF cm # <<>> /\ isServiceAgreementBlocked(cm[1].clientId, user.role)
            THEN /\ response' = [kind |-> "POST /api/expenses",
                                 request |-> request, status |-> 403]
                 /\ UNCHANGED stored
            ELSE /\ expenses' = Append(expenses, expense)
                 /\ nextId' = nextId + 1
                 /\ auditLogs' = createAuditEntry(auditLogs, user.userId, "create",
                                     "expense", <<expense.id>>, <<>>, <<expense>>)
                 /\ clientHistories' =
                        IF cm # <<>>
                        THEN trackClientChange(clientHistories, cm[1].clientId,
                                 "Expense Added", <<>>, dollar(<<amount>>),
                                 user.userId)
                        ELSE clientHistories
                 /\ response' = [kind |-> "POST /api/expenses",
                                 request |-> request, status |-> 201,
                                 body |-> expense]
                 /\ UNCHANGED <<faults, clients, clientMonths, housingSupports, rentPayments,
                                lthPayments, clientDocuments, now>>

\* PATCH /api/expenses/:id
PatchExpenses ==
    \E user \in Users, id \in ExistingIds(expenses) \cup {0}, amount \in Amounts :
        LET request == [user |-> user, id |-> id, amount |-> amount]
            oldExpense == getExpenseById(id)
            updated == updateRow(expenses, id, "amount", <<amount>>)
            expense == getRowById(updated, id)
            cm == IF oldExpense # <<>> THEN getClientMonth(oldExpense[1].clientMonthId)
                  ELSE <<>>
        IN  IF expense = <<>>
            THEN /\ response' = [kind |-> "PATCH /api/expenses/:id",
                                 request |-> request, status |-> 404]
                 /\ UNCHANGED stored
            ELSE /\ expenses' = updated
                 /\ auditLogs' = createAuditEntry(auditLogs, user.userId, "update",
                                     "expense", <<id>>, oldExpense, expense)
                 /\ clientHistories' =
                        IF oldExpense # <<>> /\ cm # <<>>
                           /\ oldExpense[1].amount # expense[1].amount
                        THEN trackClientChange(clientHistories, cm[1].clientId,
                                 "Expense", dollar(oldExpense[1].amount),
                                 dollar(expense[1].amount), user.userId)
                        ELSE clientHistories
                 /\ response' = [kind |-> "PATCH /api/expenses/:id",
                                 request |-> request, status |-> 200,
                                 body |-> expense[1]]
                 /\ UNCHANGED <<faults, clients, clientMonths, housingSupports, rentPayments,
                                lthPayments, clientDocuments, nextId, now>>

\* db.delete(table).where(eq(table.id, id))
deleteRow(table, id) == SelectSeq(table, LAMBDA r : r.id # id)

\* DELETE /api/lth-payments/:id
DeleteLthPayments ==
    \E user \in Users, id \in ExistingIds(lthPayments) \cup {0} :
        LET request == [user |-> user, id |-> id]
            oldPayment == getLthPaymentById(id)
            cm == IF oldPayment # <<>> THEN getClientMonth(oldPayment[1].clientMonthId)
                  ELSE <<>>
        IN  /\ lthPayments' = deleteRow(lthPayments, id)
            /\ auditLogs' = createAuditEntry(auditLogs, user.userId, "delete",
                                "lth_payment", <<id>>, oldPayment, <<>>)
            /\ clientHistories' =
                   IF oldPayment # <<>> /\ cm # <<>>
                   THEN trackClientChange(clientHistories, cm[1].clientId,
                            "LTH Payment Deleted", dollar(oldPayment[1].amount), <<>>,
                            user.userId)
                   ELSE clientHistories
            /\ response' = [kind |-> "DELETE /api/lth-payments/:id",
                            request |-> request, status |-> 204]
            /\ UNCHANGED <<faults, clients, clientMonths, housingSupports, rentPayments,
                           expenses, clientDocuments, nextId, now>>

\* DELETE /api/expenses/:id
DeleteExpenses ==
    \E user \in Users, id \in ExistingIds(expenses) \cup {0} :
        LET request == [user |-> user, id |-> id]
            oldExpense == getExpenseById(id)
            cm == IF oldExpense # <<>> THEN getClientMonth(oldExpense[1].clientMonthId)
                  ELSE <<>>
        IN  /\ expenses' = deleteRow(expenses, id)
            /\ auditLogs' = createAuditEntry(auditLogs, user.userId, "delete",
                                "expense", <<id>>, oldExpense, <<>>)
            /\ clientHistories' =
                   IF oldExpense # <<>> /\ cm # <<>>
                   THEN trackClientChange(clientHistories, cm[1].clientId,
                            "Expense Deleted", dollar(oldExpense[1].amount), <<>>,
                            user.userId)
                   ELSE clientHistories
            /\ response' = [kind |-> "DELETE /api/expenses/:id",
                            request |-> request, status |-> 204]
            /\ UNCHANGED <<faults, clients, clientMonths, housingSupports, rentPayments,
                           lthPayments, clientDocuments, nextId, now>>

(***************************************************************************)
(* POST /api/bulk-updates: the loop over clientIds threads the tables it   *)
(* reads and writes through an accumulator.                                *)
(***************************************************************************)
BulkTypes == {"housing_support", "rent", "expense", "lth"}

monthByPeriod(months, clientId, year, month) ==
    First(SelectSeq(months,
        LAMBDA cm : cm.clientId = clientId /\ cm.year = year /\ cm.month = month))

byClientMonth(table, clientMonthId) ==
    First(SelectSeq(table, LAMBDA r : r.clientMonthId = clientMonthId))

\* GET /api/bulk-updates/current-amounts: the entry of one client
currentAmountOf(client, query) ==
    LET clientMonth == getClientMonthByPeriod(client.id, query.year, query.month)
        none == [currentAmount |-> 0, hasExistingData |-> FALSE]
    IN  IF clientMonth = <<>> THEN none
        ELSE LET id == clientMonth[1].id
                 hs == getHousingSupport(id)
                 rent == getRentPayment(id)
             IN  CASE query.financialType = "housing_support" ->
                        IF hs # <<>>
                        THEN [currentAmount |-> parseFloatOrZero(hs[1].amount),
                              hasExistingData |-> TRUE]
                        ELSE none
                   [] query.financialType = "rent" ->
                        IF rent # <<>>
                        THEN [currentAmount |-> parseFloatOrZero(rent[1].paidAmount),
                              hasExistingData |-> TRUE]
                        ELSE none
                   [] query.financialType = "expense" ->
                        IF Len(getExpenses(id)) > 0
                        THEN [currentAmount |-> reduceAmounts(getExpenses(id), 1, 0),
                              hasExistingData |-> TRUE]
                        ELSE none
                   [] query.financialType = "lth" ->
                        IF Len(getLthPayments(id)) > 0
                        THEN [currentAmount |-> reduceAmounts(getLthPayments(id), 1, 0),
                              hasExistingData |-> TRUE]
                        ELSE none
                   [] OTHER -> none

\* GET /api/bulk-updates/current-amounts: the result, by client id
currentAmounts(query) ==
    [id \in {clients[i].id : i \in 1..Len(clients)} |->
        currentAmountOf(getClient(id)[1], query)]

GetCurrentAmounts ==
    /\ \E p \in Range(PeriodSeq), financialType \in BulkTypes \cup {""} :
          LET query == [year |-> p[1], month |-> p[2], financialType |-> financialType]
          IN  response' =
                  IF financialType = ""   \* !financialType
                  THEN [kind |-> "GET /api/bulk-updates/current-amounts",
                        query |-> query, status |-> 400]
                  ELSE [kind |-> "GET /api/bulk-updates/current-amounts",
                        query |-> query, status |-> 200,
                        body |-> currentAmounts(query)]
    /\ UNCHANGED stored

\* the switch on financialType for one client month
bulkWrite(acc, financialType, clientMonthId, clientAmount) ==
    LET existingHS == byClientMonth(acc.housingSupports, clientMonthId)
        existingRent == byClientMonth(acc.rentPayments, clientMonthId)
    IN  CASE financialType = "housing_support" ->
                IF existingHS # <<>>
                THEN [acc EXCEPT !.housingSupports =
                        updateRow(@, existingHS[1].id, "amount", <<clientAmount>>)]
                ELSE [acc EXCEPT
                        !.housingSupports =
                            Append(@, [id |-> acc.nextId, clientMonthId |-> clientMonthId,
                                       amount |-> <<clientAmount>>]),
                        !.nextId = @ + 1]
          [] financialType = "rent" ->
                IF existingRent # <<>>
                THEN [acc EXCEPT !.rentPayments =
                        updateRow(@, existingRent[1].id, "paidAmount", <<clientAmount>>)]
                ELSE [acc EXCEPT
                        !.rentPayments =
                            Append(@, [id |-> acc.nextId, clientMonthId |-> clientMonthId,
                                       paidAmount |-> <<clientAmount>>]),
                        !.nextId = @ + 1]
          [] financialType = "expense" ->
                [acc EXCEPT
                    !.expenses =
                        Append(@, [id |-> acc.nextId, clientMonthId |-> clientMonthId,
                                   amount |-> <<clientAmount>>]),
                    !.nextId = @ + 1]
          [] financialType = "lth" ->
                [acc EXCEPT
                    !.lthPayments =
                        Append(@, [id |-> acc.nextId, clientMonthId |-> clientMonthId,
                                   amount |-> <<clientAmount>>]),
                    !.nextId = @ + 1]
          [] OTHER -> acc

\* clientAmounts[clientId]: undefined, which is falsy, for a missing key
clientAmountOf(request, clientId) ==
    IF request.useUniformAmount THEN request.amount
    ELSE IF clientId \in DOMAIN request.clientAmounts
    THEN request.clientAmounts[clientId]
    ELSE 0

\* client_months.client_id references clients.id: an insert for an id that
\* is not in the clients table throws
clientExists(clientId) == getClient(clientId) # <<>>

\* the loop body that passes over a locked month whatever the role
bulkClientAnyRole(acc, request, clientId) ==
    LET clientAmount == clientAmountOf(request, clientId)
        found == monthByPeriod(acc.clientMonths, clientId, request.year, request.month)
        created == [id |-> acc.nextId, clientId |-> clientId, year |-> request.year,
                    month |-> request.month, isLocked |-> FALSE]
        clientMonth == IF found # <<>> THEN found[1] ELSE created
        acc1 == IF found # <<>> THEN acc
                ELSE [acc EXCEPT !.clientMonths = Append(@, created), !.nextId = @ + 1]
    IN  IF clientAmount = 0 THEN acc
        ELSE IF found = <<>> /\ ~clientExists(clientId)
        THEN [acc EXCEPT !.failed = TRUE]
        ELSE IF clientMonth.isLocked THEN acc1
        ELSE [bulkWrite(acc1, request.financialType, clientMonth.id, clientAmount)
                 EXCEPT !.updatedCount = @ + 1]

\* one iteration of `for (const clientId of clientIds)`
bulkClient(acc, request, clientId) ==
    LET clientAmount == clientAmountOf(request, clientId)
        found == monthByPeriod(acc.clientMonths, clientId, request.year, request.month)
        created == [id |-> acc.nextId, clientId |-> clientId, year |-> request.year,
                    month |-> request.month, isLocked |-> FALSE]
        clientMonth == IF found # <<>> THEN found[1] ELSE created
        acc1 == IF found # <<>> THEN acc
                ELSE [acc EXCEPT !.clientMonths = Append(@, created), !.nextId = @ + 1]
    IN  IF clientAmount = 0 THEN acc
        ELSE IF found = <<>> /\ ~clientExists(clientId)
        THEN [acc EXCEPT !.failed = TRUE]
        ELSE IF clientMonth.isLocked /\ request.user.role # "super_admin" THEN acc1
        ELSE [bulkWrite(acc1, request.financialType, clientMonth.id, clientAmount)
                 EXCEPT !.updatedCount = @ + 1]

RECURSIVE bulkClients(_, _, _)
bulkClients(acc, request, i) ==
    IF i > Len(request.clientIds) \/ acc.failed THEN acc
    ELSE bulkClients(bulkClient(acc, request, request.clientIds[i]), request, i + 1)

\* the request bodies: one amount for all clients, or an amount per client
\* (0 stands for a missing or falsy amount)
RECURSIVE SortedList(_)
SortedList(S) ==
    IF S = {} THEN <<>>
    ELSE LET m == CHOOSE x \in S : \A y \in S : x <= y
         IN  <<m>> \o SortedList(S \ {m})

\* an id that is in no row of the clients table
UnknownClient == 0

\* the selections of clients, and the selections with an unknown id before
\* or after a client
BulkClientIdLists ==
    {SortedList(S) : S \in SUBSET ClientIds}
    \cup {<<UnknownClient, c>> : c \in ClientIds}
    \cup {<<c, UnknownClient>> : c \in ClientIds}

BulkBodies ==
    [useUniformAmount : {TRUE}, amount : {0, 100}, clientAmounts : {[c \in ClientIds |-> 0]}]
    \cup [useUniformAmount : {FALSE}, amount : {0},
          clientAmounts : [ClientIds -> {0, 200}]]

PostBulkUpdates ==
    \E user \in Users, p \in Range(PeriodSeq), financialType \in BulkTypes,
       clientIds \in BulkClientIdLists, body \in BulkBodies :
        LET request == [user |-> user, year |-> p[1], month |-> p[2],
                        financialType |-> financialType, clientIds |-> clientIds,
                        useUniformAmount |-> body.useUniformAmount,
                        amount |-> body.amount, clientAmounts |-> body.clientAmounts]
            acc == bulkClients([clientMonths |-> clientMonths,
                                housingSupports |-> housingSupports,
                                rentPayments |-> rentPayments,
                                expenses |-> expenses,
                                lthPayments |-> lthPayments,
                                nextId |-> nextId,
                                updatedCount |-> 0,
                                failed |-> FALSE], request, 1)
        IN  IF clientIds = <<>>
            THEN /\ response' = [kind |-> "POST /api/bulk-updates",
                                 request |-> request, status |-> 400]
                 /\ UNCHANGED stored
            ELSE IF acc.failed
            THEN \* the catch block: what was written before the throw stays
                 /\ clientMonths' = acc.clientMonths
                 /\ housingSupports' = acc.housingSupports
                 /\ rentPayments' = acc.rentPayments
                 /\ expenses' = acc.expenses
                 /\ lthPayments' = acc.lthPayments
                 /\ nextId' = acc.nextId
                 /\ response' = [kind |-> "POST /api/bulk-updates",
                                 request |-> request, status |-> 500]
                 /\ UNCHANGED <<faults, clients, clientDocuments, auditLogs,
                                clientHistories, now>>
            ELSE /\ clientMonths' = acc.clientMonths
                 /\ housingSupports' = acc.housingSupports
                 /\ rentPayments' = acc.rentPayments
                 /\ expenses' = acc.expenses
                 /\ lthPayments' = acc.lthPayments
                 /\ nextId' = acc.nextId
                 /\ auditLogs' = createAuditEntry(auditLogs, user.userId, "create",
                        financialType, <<>>, <<>>,
                        <<[type |-> "bulk_update", financialType |-> financialType,
                           year |-> p[1], month |-> p[2],
                           updatedCount |-> acc.updatedCount,
                           clientIds |-> clientIds]>>)
                 /\ response' = [kind |-> "POST /api/bulk-updates",
                                 request |-> request, status |-> 200,
                                 updatedCount |-> acc.updatedCount]
                 /\ UNCHANGED <<faults, clients, clientDocuments, clientHistories, now>>

(***************************************************************************)
(* /api/client-months: neither route has authMiddleware                    *)
(***************************************************************************)
PostClientMonths ==
    \E clientId \in ClientIds, p \in Range(PeriodSeq), isLocked \in BOOLEAN :
        LET request == [clientId |-> clientId, year |-> p[1], month |-> p[2],
                        isLocked |-> isLocked]
            month == [id |-> nextId, clientId |-> clientId, year |-> p[1],
                      month |-> p[2], isLocked |-> isLocked]
        IN  /\ clientMonths' = Append(clientMonths, month)
            /\ nextId' = nextId + 1
            /\ response' = [kind |-> "POST /api/client-months", request |-> request,
                            status |-> 201, body |-> month]
            /\ UNCHANGED <<faults, clients, housingSupports, rentPayments, lthPayments,
                           expenses, clientDocuments, auditLogs, clientHistories, now>>

PatchClientMonths ==
    \E id \in ExistingIds(clientMonths) \cup {0}, isLocked \in BOOLEAN :
        LET request == [id |-> id, isLocked |-> isLocked]
            updated == updateRow(clientMonths, id, "isLocked", isLocked)
            month == getRowById(updated, id)
        IN  IF month = <<>>
            THEN /\ response' = [kind |-> "PATCH /api/client-months/:id",
                                 request |-> request, status |-> 404]
                 /\ UNCHANGED stored
            ELSE /\ clientMonths' = updated
                 /\ response' = [kind |-> "PATCH /api/client-months/:id",
                                 request |-> request, status |-> 200,
                                 body |-> month[1]]
                 /\ UNCHANGED <<faults, clients, housingSupports, rentPayments, lthPayments,
                                expenses, clientDocuments, auditLogs, clientHistories,
                                nextId, now>>

(***************************************************************************)
(* /api/clients: POST and PATCH.  A request body is a function from the    *)
(* keys it carries to their values; an absent key is undefined, the value  *)
(* <<>> is null.  The housing row and the activity row the handlers also   *)
(* write are not part of the model.                                        *)
(***************************************************************************)
\* the value of a key of a body, <<>> when the key is absent or null
bodyValue(body, key) == IF key \in DOMAIN body THEN body[key] ELSE <<>>

\* db.insert(clients).values(client).returning(): the columns the body does
\* not carry are null, is_active defaults to true
createClient(id, data) ==
    [id |-> id,
     fullName |-> data.fullName,
     phone |-> bodyValue(data, "phone"),
     countyCaseNumber |-> bodyValue(data, "countyCaseNumber"),
     countyId |-> data.countyId,
     serviceTypeId |-> bodyValue(data, "serviceTypeId"),
     serviceStatusId |-> bodyValue(data, "serviceStatusId"),
     statusOverride |-> bodyValue(data, "statusOverride"),
     statusOverrideBy |-> bodyValue(data, "statusOverrideBy"),
     statusOverrideAt |-> bodyValue(data, "statusOverrideAt"),
     isActive |-> IF "isActive" \in DOMAIN data THEN data.isActive ELSE TRUE]

\* db.update(clients).set(client).where(eq(clients.id, id))
updateClient(table, id, data) ==
    [i \in 1..Len(table) |->
        IF table[i].id = id
        THEN [k \in DOMAIN table[i] |->
                 IF k \in DOMAIN data THEN data[k] ELSE table[i][k]]
        ELSE table[i]]

fieldsToCompare ==
    << [key |-> "fullName", label |-> "Full Name"],
       [key |-> "phone", label |-> "Phone"],
       [key |-> "countyCaseNumber", label |-> "County Case Number"],
       [key |-> "countyId", label |-> "County"],
       [key |-> "serviceTypeId", label |-> "Service Type"],
       [key |-> "serviceStatusId", label |-> "Service Status"],
       [key |-> "isActive", label |-> "Active Status"],
       [key |-> "statusOverride", label |-> "Status Override"] >>

\* String(client[key] ?? ""): null becomes the empty string, a boolean its name
stringOrEmpty(client, key) ==
    IF key = "isActive" THEN (IF client.isActive THEN "true" ELSE "false")
    ELSE IF key \in {"fullName", "countyId"} THEN client[key]
    ELSE IF client[key] = <<>> THEN ""
    ELSE client[key][1]

\* the loop over fieldsToCompare, from field i on
RECURSIVE trackFields(_, _, _, _, _)
trackFields(histories, oldClient, client, userId, i) ==
    IF i > Len(fieldsToCompare) THEN histories
    ELSE LET field == fieldsToCompare[i]
             oldVal == stringOrEmpty(oldClient, field.key)
             newVal == stringOrEmpty(client, field.key)
         IN  trackFields(
                 IF oldVal # newVal
                 THEN trackClientChange(histories, client.id, field.label,
                          <<oldVal>>, <<newVal>>, userId)
                 ELSE histories,
                 oldClient, client, userId, i + 1)

\* f and g joined; g wins on the keys both carry
Merge(f, g) ==
    [k \in DOMAIN f \cup DOMAIN g |-> IF k \in DOMAIN g THEN g[k] ELSE f[k]]

\* the bodies of POST /api/clients: fullName is required by the schema
PostClientBodies ==
    LET base == [fullName |-> "Zed", countyId |-> "c1"]
    IN  {base, [phone |-> <<"555">>],
         Merge(base, [statusOverride |-> <<"active">>]),
         Merge(base, [saExpiryDate |-> <<EarlyExpiry>>]),
         Merge(base, [statusOverride |-> <<"active">>,
                      saExpiryDate |-> <<EarlyExpiry>>])}

\* POST /api/clients
PostClients ==
    \E user \in Users, body \in PostClientBodies :
        LET request == [user |-> user, body |-> body]
            clientData == [k \in DOMAIN body \ {"saExpiryDate"} |-> body[k]]
            client == createClient(Len(clients) + 1, clientData)
            saExpiryDate == bodyValue(body, "saExpiryDate")
        IN  IF "fullName" \notin DOMAIN clientData
            THEN /\ response' = [kind |-> "POST /api/clients", request |-> request,
                                 status |-> 400]
                 /\ UNCHANGED stored
            ELSE /\ clients' = Append(clients, client)
                 /\ IF saExpiryDate # <<>>
                    THEN /\ clientDocuments' = Append(clientDocuments,
                                [id |-> nextId, clientId |-> client.id,
                                 documentType |-> "SERVICE_AGREEMENT",
                                 expiryDate |-> saExpiryDate])
                         /\ nextId' = nextId + 1
                    ELSE UNCHANGED <<clientDocuments, nextId>>
                 /\ auditLogs' = createAuditEntry(auditLogs, user.userId, "create",
                                     "client", <<client.id>>, <<>>, <<client>>)
                 /\ clientHistories' = trackClientChange(clientHistories, client.id,
                                           "Client Created", <<>>, <<client.fullName>>,
                                           user.userId)
                 /\ response' = [kind |-> "POST /api/clients", request |-> request,
                                 status |-> 201, body |-> client]
                 /\ UNCHANGED <<faults, clientMonths, housingSupports, rentPayments,
                                lthPayments, expenses, now>>

\* the bodies of PATCH /api/clients/:id: one key, or two keys
PatchClientFields ==
    {[fullName |-> n] : n \in {"Ann", "Zed"}}
    \cup {[phone |-> v] : v \in Opt({"", "555"})}
    \cup {[countyCaseNumber |-> <<"A1">>]}
    \cup {[countyId |-> c] : c \in {"c1", "c2"}}
    \cup {[serviceTypeId |-> <<"s1">>], [serviceStatusId |-> <<"t1">>]}
    \cup {[isActive |-> b] : b \in BOOLEAN}
    \cup {[statusOverride |-> v] : v \in Opt({"active"})}
    \cup {[statusOverrideBy |-> <<"u2">>]}

PatchClientBodies ==
    PatchClientFields
    \cup {Merge(f, g) : f \in PatchClientFields,
                        g \in {[phone |-> <<"555">>], [statusOverride |-> <<"active">>]}}

\* PATCH /api/clients/:id
PatchClients ==
    \E user \in Users, id \in ExistingIds(clients) \cup {0}, body \in PatchClientBodies :
        LET request == [user |-> user, id |-> id, body |-> body]
            oldClient == getClient(id)
            updated == updateClient(clients, id, body)
            client == getRowById(updated, id)
        IN  IF /\ DOMAIN body \cap {"statusOverride", "statusOverrideBy",
                                    "statusOverrideAt"} # {}
               /\ user.role # "super_admin"
            THEN /\ response' = [kind |-> "PATCH /api/clients/:id",
                                 request |-> request, status |-> 403]
                 /\ UNCHANGED stored
            ELSE IF client = <<>>
            THEN /\ response' = [kind |-> "PATCH /api/clients/:id",
                                 request |-> request, status |-> 404]
                 /\ UNCHANGED stored
            ELSE /\ clients' = updated
                 /\ auditLogs' = createAuditEntry(auditLogs, user.userId, "update",
                                     "client", <<id>>, oldClient, client)
                 /\ clientHistories' =
                        IF oldClient # <<>>
                        THEN trackFields(clientHistories, oldClient[1], client[1],
                                         user.userId, 1)
                        ELSE clientHistories
                 /\ response' = [kind |-> "PATCH /api/clients/:id",
                                 request |-> request, status |-> 200,
                                 body |-> client[1]]
                 /\ UNCHANGED <<faults, clientMonths, housingSupports, rentPayments,
                                lthPayments, expenses, clientDocuments, nextId, now>>

\* the wall clock read by `new Date()` moves on
Tick ==
    /\ \E t \in Instants :
        /\ t > now
        /\ \A u \in Instants : u > now => t <= u
        /\ now' = t
    /\ UNCHANGED <<faults, clients, clientMonths, housingSupports, rentPayments, lthPayments,
                   expenses, clientDocuments, auditLogs, clientHistories, nextId,
                   response>>

(***************************************************************************)
(* Stored states for the read side.  Any set of client-months and of       *)
(* financial rows can be stored through POST /api/client-months and the    *)
(* POST endpoints of the financial tables; the aggregations are read for   *)
(* every such state with at most MaxClientMonths client-months, one per    *)
(* (client, year, month), each with an optional housing support, an        *)
(* optional rent payment and at most MaxExpenses expenses.                 *)
(***************************************************************************)
ExpChoices == UNION {[1..n -> ExpVals] : n \in 0..MaxExpenses}

MonthData == [hs : Opt(HsVals), rent : Opt(RentVals), exp : ExpChoices]

NameOfNew(i) == IF i % 2 = 1 THEN "Ann" ELSE "Bob"

CountyOfNew(i) == IF i % 2 = 1 THEN "c1" ELSE "c2"

InitClients ==
    [i \in 1..NumClients |->
        createClient(i, [fullName |-> NameOfNew(i), countyId |-> CountyOfNew(i)])]

AllKeys ==
    [i \in 1..(NumClients * Len(PeriodSeq)) |->
        [clientId |-> ((i - 1) \div Len(PeriodSeq)) + 1,
         period |-> PeriodSeq[((i - 1) % Len(PeriodSeq)) + 1]]]

RECURSIVE expenseRowsFrom(_, _, _)
expenseRowsFrom(idx, data, j) ==
    IF j > Len(idx) THEN <<>>
    ELSE [k \in 1..Len(data[idx[j]].exp) |->
             [clientMonthId |-> j, amount |-> <<data[idx[j]].exp[k]>>]]
         \o expenseRowsFrom(idx, data, j + 1)

WithIds(rows) ==
    [n \in 1..Len(rows) |-> [id |-> n] @@ rows[n]]

InitStored ==
    \E keys \in SUBSET (1..Len(AllKeys)) :
        /\ Cardinality(keys) <= MaxClientMonths
        /\ \E data \in [keys -> MonthData] :
            LET idx == SelectSeq([i \in 1..Len(AllKeys) |-> i], LAMBDA i : i \in keys)
                js == [j \in 1..Len(idx) |-> j]
                hsJs == SelectSeq(js, LAMBDA j : data[idx[j]].hs # <<>>)
                rentJs == SelectSeq(js, LAMBDA j : data[idx[j]].rent # <<>>)
            IN  /\ clients = InitClients
                /\ clientMonths =
                       [j \in 1..Len(idx) |->
                           [id |-> j,
                            clientId |-> AllKeys[idx[j]].clientId,
                            year |-> AllKeys[idx[j]].period[1],
                            month |-> AllKeys[idx[j]].period[2],
                            isLocked |-> FALSE]]
                /\ housingSupports =
                       [n \in 1..Len(hsJs) |->
                           [id |-> n, clientMonthId |-> hsJs[n],
                            amount |-> data[idx[hsJs[n]]].hs]]
                /\ rentPayments =
                       [n \in 1..Len(rentJs) |->
                           [id |-> n, clientMonthId |-> rentJs[n],
                            paidAmount |-> data[idx[rentJs[n]]].rent]]
                /\ expenses = WithIds(expenseRowsFrom(idx, data, 1))
    /\ lthPayments = <<>>
    /\ clientDocuments = <<>>
    /\ auditLogs = <<>>
    /\ clientHistories = <<>>
    /\ nextId = 1
    /\ now = FirstInstant
    /\ faults = {}
    /\ response = [kind |-> "none"]

\* the requests served: the stored periods are 2025-03, 2025-04 and 2024-03
QueryYears == {2025}
QueryMonths == {3}

DashboardQueries ==
    {[filter |-> "all", year |-> NoParam, month |-> NoParam]}
    \cup {[filter |-> "year", year |-> y, month |-> NoParam] : y \in QueryYears}
    \cup {[filter |-> "month", year |-> y, month |-> m] :
              y \in QueryYears, m \in QueryMonths}

SummaryQueries ==
    [year : QueryYears, month : {NoParam} \cup QueryMonths,
     countyId : {NoCounty, "c1"}]

GetDashboardMetrics ==
    /\ \E query \in DashboardQueries : response' = dashboardMetrics(query)
    /\ UNCHANGED stored

GetPoolFundSummary ==
    /\ \E query \in SummaryQueries : response' = poolFundSummary(query)
    /\ UNCHANGED stored

NextDashboard == GetDashboardMetrics

SpecDashboard == InitStored /\ [][NextDashboard]_vars

NextPoolFund == GetPoolFundSummary

SpecPoolFund == InitStored /\ [][NextPoolFund]_vars

(***************************************************************************)
(* The amounts of one client-month, read off the stored rows.              *)
(***************************************************************************)
ColValue(col) == IF col = <<>> THEN 0 ELSE col[1]

MonthRows == Range(clientMonths)

MonthHousingSupport(cm) ==
    LET rows == {h \in Range(housingSupports) : h.clientMonthId = cm.id}
    IN  SumFn([h \in rows |-> ColValue(h.amount)], rows)

MonthRentPaid(cm) ==
    LET rows == {r \in Range(rentPayments) : r.clientMonthId = cm.id}
    IN  SumFn([r \in rows |-> ColValue(r.paidAmount)], rows)

MonthTotalExpenses(cm) ==
    LET rows == {e \in Range(expenses) : e.clientMonthId = cm.id}
    IN  SumFn([e \in rows |-> ColValue(e.amount)], rows)

\* the inclusion predicate, on the month's own amounts
Included(cm) ==
    /\ MonthHousingSupport(cm) > 0
    /\ MonthRentPaid(cm) > 0 \/ MonthTotalExpenses(cm) > 0

PoolAmount(cm) ==
    MonthHousingSupport(cm) - (MonthRentPaid(cm) + MonthTotalExpenses(cm))

Balance(cm) ==
    MonthHousingSupport(cm) - MonthRentPaid(cm) - MonthTotalExpenses(cm)

\* the client-months a dashboard filter puts in scope
DashboardScope(query) ==
    {cm \in MonthRows :
        \/ query.filter = "all"
        \/ query.filter = "year" /\ cm.year = query.year
        \/ query.filter = "month" /\ cm.year = query.year /\ cm.month = query.month}

ClientCounty(clientId) ==
    (CHOOSE c \in Range(clients) : c.id = clientId).countyId

\* the client-months a pool-fund-summary query puts in scope
SummaryScope(query) ==
    {cm \in MonthRows :
        /\ cm.year = query.year
        /\ query.month = NoParam \/ cm.month = query.month
        /\ query.countyId = NoCounty \/ ClientCounty(cm.clientId) = query.countyId}

IsDashboard == response.kind = "dashboard"
IsSummary == response.kind = "poolFundSummary"

(***************************************************************************)
(* C1: in GET /api/dashboard/metrics a client-month in scope counts for    *)
(* the pool fund exactly when its housing support is > 0 and its rent or   *)
(* its expenses are > 0: poolContributors is the number of clients with    *)
(* such a month in scope, and when no month in scope is such a month       *)
(* (support 0, or support without rent and expenses) totalPoolFund is 0.   *)
(***************************************************************************)
C1_DashboardInclusion ==
    IsDashboard =>
        LET inc == {cm \in DashboardScope(response.query) : Included(cm)}
        IN  /\ response.poolContributors = Cardinality({cm.clientId : cm \in inc})
            /\ inc = {} => response.totalPoolFund = 0

\* a month with rent but no support and an included month are both in scope
\* of the request
C1_Witness ==
    /\ IsDashboard
    /\ \E a, c \in DashboardScope(response.query) :
        /\ MonthHousingSupport(a) = 0 /\ MonthRentPaid(a) > 0
        /\ Included(c)
    /\ response.poolContributors = 1

(***************************************************************************)
(* C2: totalPoolFund of GET /api/dashboard/metrics is the sum, over the    *)
(* included client-months in scope, of housingSupport - (rentPaid +        *)
(* totalExpenses), negative amounts kept as they are.                      *)
(***************************************************************************)
C2_DashboardPoolAmount ==
    IsDashboard =>
        LET inc == {cm \in DashboardScope(response.query) : Included(cm)}
        IN  response.totalPoolFund = SumFn([cm \in inc |-> PoolAmount(cm)], inc)

\* a month in deficit is in scope and the total is negative
C2_Witness ==
    /\ IsDashboard
    /\ \E cm \in DashboardScope(response.query) : Included(cm) /\ PoolAmount(cm) < 0
    /\ response.totalPoolFund < 0

(***************************************************************************)
(* C3: totalRemainingBalance of GET /api/dashboard/metrics is the sum of   *)
(* housingSupport - rentPaid - totalExpenses over every client-month in    *)
(* scope, included in the pool fund or not.                                *)
(***************************************************************************)
C3_DashboardRemainingBalance ==
    IsDashboard =>
        LET scope == DashboardScope(response.query)
        IN  response.totalRemainingBalance = SumFn([cm \in scope |-> Balance(cm)], scope)

\* only a support-only month is in scope: it adds its support to the balance
\* and nothing to the pool fund
C3_Witness ==
    /\ IsDashboard
    /\ \E cm \in DashboardScope(response.query) :
        /\ MonthHousingSupport(cm) > 0 /\ ~Included(cm)
        /\ DashboardScope(response.query) = {cm}
        /\ response.totalRemainingBalance = MonthHousingSupport(cm)
    /\ response.totalPoolFund = 0

(***************************************************************************)
(* C4: totalPoolFund of GET /api/pool-fund-summary is the sum of           *)
(* housingSupport - (rentPaid + totalExpenses) over exactly the            *)
(* client-months in scope that satisfy the inclusion predicate on their    *)
(* own amounts.                                                            *)
(***************************************************************************)
C4_SummaryPerMonth ==
    IsSummary =>
        LET inc == {cm \in SummaryScope(response.query) : Included(cm)}
        IN  response.totalPoolFund = SumFn([cm \in inc |-> PoolAmount(cm)], inc)

(***************************************************************************)
(* C5: totalContributors of GET /api/pool-fund-summary is the number of    *)
(* clients with at least one included client-month in scope, and the       *)
(* contributions list holds exactly those clients.                         *)
(***************************************************************************)
C5_SummaryContributors ==
    IsSummary =>
        LET inc == {cm \in SummaryScope(response.query) : Included(cm)}
            contributors == {cm.clientId : cm \in inc}
        IN  /\ response.totalContributors = Cardinality(contributors)
            /\ {response.contributions[i].clientId :
                   i \in DOMAIN response.contributions} = contributors

(***************************************************************************)
(* C6: in every response of GET /api/pool-fund-summary each listed         *)
(* contributor is counted once, in positiveContributors when its           *)
(* poolAmount is >= 0 and in negativeContributors when it is < 0; the two  *)
(* counts add up to totalContributors, the length of the list, and         *)
(* totalPoolFund is the sum of the listed poolAmount values.               *)
(***************************************************************************)
C6_SummaryCounts ==
    IsSummary =>
        LET list == response.contributions
            pos == {i \in DOMAIN list : list[i].poolAmount >= 0}
            neg == {i \in DOMAIN list : list[i].poolAmount < 0}
        IN  /\ response.positiveContributors = Cardinality(pos)
            /\ response.negativeContributors = Cardinality(neg)
            /\ response.positiveContributors + response.negativeContributors
                   = response.totalContributors
            /\ response.totalContributors = Len(list)
            /\ response.totalPoolFund
                   = SumFn([i \in DOMAIN list |-> list[i].poolAmount], DOMAIN list)

\* a contributor with pool amount zero next to one in deficit
C6_Witness ==
    /\ IsSummary
    /\ \E i, j \in DOMAIN response.contributions :
        /\ response.contributions[i].poolAmount = 0
        /\ response.contributions[j].poolAmount < 0
    /\ response.positiveContributors = 1
    /\ response.negativeContributors = 1

(***************************************************************************)
(* C7: the contributions of GET /api/pool-fund-summary are ordered by      *)
(* poolAmount descending, and contributors with equal poolAmount keep the  *)
(* order in which their clients were processed.                            *)
(***************************************************************************)
ClientPos(clientId) == CHOOSE i \in DOMAIN clients : clients[i].id = clientId

C7_SummaryOrder ==
    IsSummary =>
        LET list == response.contributions
        IN  \A i, j \in DOMAIN list :
                i < j =>
                    \/ list[i].poolAmount > list[j].poolAmount
                    \/ /\ list[i].poolAmount = list[j].poolAmount
                       /\ ClientPos(list[i].clientId) < ClientPos(list[j].clientId)

\* two contributors tie on the pool amount
C7_Witness ==
    /\ IsSummary
    /\ Len(response.contributions) = 2
    /\ response.contributions[1].poolAmount = response.contributions[2].poolAmount

\* the later client has the larger pool amount and is listed first
C7_Reordered ==
    /\ IsSummary
    /\ Len(response.contributions) = 2
    /\ response.contributions[1].poolAmount > response.contributions[2].poolAmount
    /\ ClientPos(response.contributions[1].clientId)
           > ClientPos(response.contributions[2].clientId)


(***************************************************************************)
(* The whole server: an empty database with its clients, every handler,    *)
(* and the clock.  Bounded caps the rows and the log entries a behaviour   *)
(* may create.                                                             *)
(***************************************************************************)
MaxRows == 2
MaxLogs == 1

Init ==
    /\ clients = InitClients
    /\ clientMonths = <<>>
    /\ housingSupports = <<>>
    /\ rentPayments = <<>>
    /\ lthPayments = <<>>
    /\ expenses = <<>>
    /\ clientDocuments = <<>>
    /\ auditLogs = <<>>
    /\ clientHistories = <<>>
    /\ nextId = 1
    /\ now = FirstInstant
    /\ faults = {}
    /\ response = [kind |-> "none"]

Bounded == nextId <= MaxRows /\ Len(auditLogs) < MaxLogs

Next ==
    \/ GetDashboardMetrics
    \/ GetPoolFundSummary
    \/ Bounded /\ PostClientMonths
    \/ PatchClientMonths
    \/ Bounded /\ PostHousingSupports
    \/ Bounded /\ PatchHousingSupports
    \/ Bounded /\ PostRentPayments
    \/ Bounded /\ PatchRentPayments
    \/ Bounded /\ PostLthPayments
    \/ Bounded /\ PatchLthPayments
    \/ Bounded /\ PostExpenses
    \/ Bounded /\ PatchExpenses
    \/ Bounded /\ DeleteLthPayments
    \/ Bounded /\ DeleteExpenses
    \/ Bounded /\ PostBulkUpdates
    \/ Tick

Spec == Init /\ [][Next]_vars

(***************************************************************************)
(* One request against a stored state with client months, some of them     *)
(* locked, at any instant of the clock.                                    *)
(***************************************************************************)
Fresh == response.kind = "none"

MonthChoices == {<<>>} \cup {<<[period |-> p, isLocked |-> l]>> :
                                p \in Range(PeriodSeq), l \in BOOLEAN}

\* the client months of the clients 1..c, ids in order
RECURSIVE lockMonthsFrom(_, _)
lockMonthsFrom(monthOf, c) ==
    IF c = 0 THEN <<>>
    ELSE LET before == lockMonthsFrom(monthOf, c - 1)
         IN  IF monthOf[c] = <<>> THEN before
             ELSE Append(before,
                     [id |-> Len(before) + 1, clientId |-> c,
                      year |-> monthOf[c][1].period[1],
                      month |-> monthOf[c][1].period[2],
                      isLocked |-> monthOf[c][1].isLocked])

FirstAmount == CHOOSE a \in Amounts : \A b \in Amounts : a <= b

\* one row for every client month, ids from firstId
rowsForMonths(months, firstId, field) ==
    [i \in 1..Len(months) |->
        [id |-> firstId + i - 1, clientMonthId |-> months[i].id] @@
        (field :> <<FirstAmount>>)]

InitLock ==
    \E monthOf \in [ClientIds -> MonthChoices], hasRows \in BOOLEAN, t \in Instants :
        LET months == lockMonthsFrom(monthOf, NumClients)
            n == Len(months)
        IN  /\ clients = InitClients
            /\ clientMonths = months
            /\ housingSupports =
                   IF hasRows THEN rowsForMonths(months, n + 1, "amount") ELSE <<>>
            /\ rentPayments =
                   IF hasRows THEN rowsForMonths(months, 2 * n + 1, "paidAmount") ELSE <<>>
            /\ lthPayments =
                   IF hasRows THEN rowsForMonths(months, 3 * n + 1, "amount") ELSE <<>>
            /\ expenses =
                   IF hasRows THEN rowsForMonths(months, 4 * n + 1, "amount") ELSE <<>>
            /\ clientDocuments = <<>>
            /\ auditLogs = <<>>
            /\ clientHistories = <<>>
            /\ nextId = IF hasRows THEN 5 * n + 1 ELSE n + 1
            /\ now = t
            /\ faults = {}
            /\ response = [kind |-> "none"]

NextLock ==
    \/ Fresh /\ PostClientMonths
    \/ Fresh /\ PatchClientMonths
    \/ Fresh /\ PostHousingSupports
    \/ Fresh /\ PatchHousingSupports
    \/ Fresh /\ PostRentPayments
    \/ Fresh /\ PatchRentPayments
    \/ Fresh /\ PostLthPayments
    \/ Fresh /\ PatchLthPayments
    \/ Fresh /\ PostExpenses
    \/ Fresh /\ PatchExpenses
    \/ Fresh /\ DeleteLthPayments
    \/ Fresh /\ DeleteExpenses
    \/ Fresh /\ PostBulkUpdates

SpecLock == InitLock /\ [][NextLock]_vars

(***************************************************************************)
(* One financial create request against a stored state with documents and  *)
(* status overrides, at any instant of the clock.                          *)
(***************************************************************************)
serviceAgreement(expiryDate) ==
    [documentType |-> "SERVICE_AGREEMENT", expiryDate |-> expiryDate]

\* the documents one client may have, in table order
DocLists ==
    { <<>>,
      <<serviceAgreement(<<EarlyExpiry>>)>>,
      <<serviceAgreement(<<LateExpiry>>)>>,
      <<serviceAgreement(<<EarlyExpiry>>), serviceAgreement(<<LateExpiry>>)>>,
      <<serviceAgreement(<<LateExpiry>>), serviceAgreement(<<EarlyExpiry>>)>>,
      <<[documentType |-> "LEASE", expiryDate |-> <<EarlyExpiry>>],
        serviceAgreement(<<>>)>> }

RECURSIVE docRowsFrom(_, _)
docRowsFrom(docsOf, c) ==
    IF c = 0 THEN <<>>
    ELSE LET before == docRowsFrom(docsOf, c - 1)
         IN  before \o
             [i \in 1..Len(docsOf[c]) |->
                 [id |-> NumClients + Len(before) + i, clientId |-> c,
                  documentType |-> docsOf[c][i].documentType,
                  expiryDate |-> docsOf[c][i].expiryDate]]

InitGate ==
    \E docsOf \in [ClientIds -> DocLists],
       overrideOf \in [ClientIds -> Opt({"active"})], t \in Instants :
        LET docs == docRowsFrom(docsOf, NumClients)
        IN  /\ clients = [i \in 1..NumClients |->
                             [InitClients[i] EXCEPT !.statusOverride = overrideOf[i]]]
            /\ clientMonths = [i \in 1..NumClients |->
                                  [id |-> i, clientId |-> i, year |-> PeriodSeq[1][1],
                                   month |-> PeriodSeq[1][2], isLocked |-> FALSE]]
            /\ housingSupports = <<>>
            /\ rentPayments = <<>>
            /\ lthPayments = <<>>
            /\ expenses = <<>>
            /\ clientDocuments = docs
            /\ auditLogs = <<>>
            /\ clientHistories = <<>>
            /\ nextId = NumClients + Len(docs) + 1
            /\ now = t
            /\ faults = {}
            /\ response = [kind |-> "none"]

NextGate ==
    \/ Fresh /\ PostHousingSupports
    \/ Fresh /\ PostRentPayments
    \/ Fresh /\ PostLthPayments
    \/ Fresh /\ PostExpenses

SpecGate == InitGate /\ [][NextGate]_vars

(***************************************************************************)
(* Locked months and the edit window                                       *)
(***************************************************************************)
CreateKinds == {"POST /api/housing-supports", "POST /api/rent-payments",
                "POST /api/lth-payments", "POST /api/expenses"}
UpdateKinds == {"PATCH /api/housing-supports/:id", "PATCH /api/rent-payments/:id",
                "PATCH /api/lth-payments/:id", "PATCH /api/expenses/:id"}

TableOf(kind) ==
    CASE kind = "PATCH /api/housing-supports/:id" -> housingSupports
      [] kind = "PATCH /api/rent-payments/:id" -> rentPayments
      [] kind = "PATCH /api/lth-payments/:id" -> lthPayments
      [] kind = "PATCH /api/expenses/:id" -> expenses

\* the client month a single-record request is about, in the state the
\* request is served from; <<>> when there is none
TargetMonth(r) ==
    IF r.kind \in CreateKinds THEN getClientMonth(r.request.clientMonthId)
    ELSE IF r.kind \in UpdateKinds
    THEN LET row == getRowById(TableOf(r.kind), r.request.id)
         IN  IF row = <<>> THEN <<>> ELSE getClientMonth(row[1].clientMonthId)
    ELSE <<>>

FinancialTables == <<housingSupports, rentPayments, lthPayments, expenses>>

Rejected(r) == r.status = 403
Accepted(r) == r.status \in {200, 201}

\* C8: a create or update request on a financial row of a locked client
\* month is rejected and writes no financial row when the actor is an admin,
\* and succeeds when the actor is a super_admin.
C8_LockedMonthRejected ==
    [][ LET r == response'
            cm == TargetMonth(r)
        IN  (cm # <<>> /\ cm[1].isLocked) =>
                IF r.request.user.role = "admin"
                THEN Rejected(r) /\ UNCHANGED FinancialTables
                ELSE Accepted(r) ]_vars

\* the calendar behind the clock, which counts days from 2024-01-01
EditWindowDays == 30

IsLeap(y) == (y % 4 = 0 /\ y % 100 # 0) \/ y % 400 = 0

DaysInMonth(y, m) ==
    IF m = 2 THEN (IF IsLeap(y) THEN 29 ELSE 28)
    ELSE IF m \in {4, 6, 9, 11} THEN 30 ELSE 31

RECURSIVE DaysBefore(_, _)
DaysBefore(y, m) ==
    IF y = 2024 /\ m = 1 THEN 0
    ELSE IF m = 1 THEN DaysBefore(y - 1, 12) + DaysInMonth(y - 1, 12)
    ELSE DaysBefore(y, m - 1) + DaysInMonth(y, m - 1)

MonthEnd(y, m) == DaysBefore(y, m) + DaysInMonth(y, m)

WindowClosed(y, m) == now > MonthEnd(y, m) + EditWindowDays

\* C9: more than 30 days after the end of a client month's calendar month
\* an admin's financial mutation of that month is rejected even when
\* isLocked was never set, a super_admin's is still accepted, and before
\* that time an admin's mutation of an unlocked month is accepted.
C9_EditWindowLock ==
    [][ LET r == response'
            cm == TargetMonth(r)
        IN  /\ cm # <<>> =>
                 IF r.request.user.role = "super_admin" THEN Accepted(r)
                 ELSE IF WindowClosed(cm[1].year, cm[1].month)
                 THEN Rejected(r) /\ UNCHANGED FinancialTables
                 ELSE ~cm[1].isLocked => Accepted(r)
            /\ (/\ r.kind = "POST /api/bulk-updates"
                /\ r.status = 200
                /\ r.request.user.role = "admin"
                /\ WindowClosed(r.request.year, r.request.month)) =>
                 r.updatedCount = 0 /\ UNCHANGED FinancialTables ]_vars

(***************************************************************************)
(* The service-agreement gate                                              *)
(***************************************************************************)
SaExpiries(clientId) ==
    {clientDocuments[i].expiryDate[1] :
        i \in {j \in 1..Len(clientDocuments) :
                 /\ clientDocuments[j].clientId = clientId
                 /\ clientDocuments[j].documentType = "SERVICE_AGREEMENT"
                 /\ clientDocuments[j].expiryDate # <<>>}}

LatestExpiry(clientId) ==
    CHOOSE e \in SaExpiries(clientId) : \A f \in SaExpiries(clientId) : f <= e

StatusOverrideOf(clientId) ==
    LET i == CHOOSE j \in 1..Len(clients) : clients[j].id = clientId
    IN  clients[i].statusOverride

GateBlocks(clientId, role) ==
    /\ role # "super_admin"
    /\ SaExpiries(clientId) # {}
    /\ LatestExpiry(clientId) < now
    /\ StatusOverrideOf(clientId) # <<"active">>

\* C10: the gate blocks a financial create request for a client exactly
\* when the actor is not a super_admin, the client has a service agreement
\* with an expiry date, the latest such expiry date is earlier than now, and
\* the client's statusOverride is not "active".
C10_ServiceAgreementGate ==
    [][ LET r == response'
        IN  r.kind \in CreateKinds =>
              LET cm == getClientMonth(r.request.clientMonthId)[1]
              IN  Rejected(r) <=> GateBlocks(cm.clientId, r.request.user.role) ]_vars

\* an admin is let through by a newer unexpired agreement although an older
\* one has expired
C10_Witness ==
    /\ response.kind \in CreateKinds
    /\ response.status = 201
    /\ response.request.user.role = "admin"
    /\ LET cm == getClientMonth(response.request.clientMonthId)[1]
       IN  /\ \E e \in SaExpiries(cm.clientId) : e < now
           /\ LatestExpiry(cm.clientId) >= now
           /\ StatusOverrideOf(cm.clientId) = <<>>


\* C11: a create request by an admin for a client month whose client the
\* gate blocks is answered with the service-agreement error and leaves the
\* stored state as it was: no financial row, no audit entry, no history row.
C11_BlockedCreateWritesNothing ==
    [][ LET r == response'
        IN  (/\ r.kind \in CreateKinds
             /\ r.request.user.role = "admin"
             /\ GateBlocks(getClientMonth(r.request.clientMonthId)[1].clientId,
                           "admin")) =>
              Rejected(r) /\ UNCHANGED stored ]_vars

\* an admin's create request was refused and the tables are still empty
C11_Witness ==
    /\ response.kind \in CreateKinds
    /\ response.status = 403
    /\ response.request.user.role = "admin"
    /\ FinancialTables = <<<<>>, <<>>, <<>>, <<>>>>
    /\ auditLogs = <<>>
    /\ clientHistories = <<>>

(***************************************************************************)
(* One update or bulk request against a stored state with documents,       *)
(* status overrides and, possibly, one row of every financial table for    *)
(* every client month.                                                     *)
(***************************************************************************)
InitGateRows ==
    \E docsOf \in [ClientIds -> DocLists],
       overrideOf \in [ClientIds -> Opt({"active"})], hasRows \in BOOLEAN,
       t \in Instants :
        LET docs == docRowsFrom(docsOf, NumClients)
            months == [i \in 1..NumClients |->
                          [id |-> i, clientId |-> i, year |-> PeriodSeq[1][1],
                           month |-> PeriodSeq[1][2], isLocked |-> FALSE]]
            n == NumClients
            firstRow == NumClients + Len(docs) + 1
        IN  /\ clients = [i \in 1..NumClients |->
                             [InitClients[i] EXCEPT !.statusOverride = overrideOf[i]]]
            /\ clientMonths = months
            /\ housingSupports =
                   IF hasRows THEN rowsForMonths(months, firstRow, "amount") ELSE <<>>
            /\ rentPayments =
                   IF hasRows THEN rowsForMonths(months, firstRow + n, "paidAmount")
                   ELSE <<>>
            /\ lthPayments =
                   IF hasRows THEN rowsForMonths(months, firstRow + 2 * n, "amount")
                   ELSE <<>>
            /\ expenses =
                   IF hasRows THEN rowsForMonths(months, firstRow + 3 * n, "amount")
                   ELSE <<>>
            /\ clientDocuments = docs
            /\ auditLogs = <<>>
            /\ clientHistories = <<>>
            /\ nextId = IF hasRows THEN firstRow + 4 * n ELSE firstRow
            /\ now = t
            /\ faults = {}
            /\ response = [kind |-> "none"]

NextGateWrites ==
    \/ Fresh /\ PatchHousingSupports
    \/ Fresh /\ PatchRentPayments
    \/ Fresh /\ PatchLthPayments
    \/ Fresh /\ PatchExpenses
    \/ Fresh /\ PostBulkUpdates

SpecGateWrites == InitGateRows /\ [][NextGateWrites]_vars

\* C12: an update request by an admin on a row whose client the gate blocks
\* is answered with the service-agreement error and leaves the financial
\* tables as they were.
C12_BlockedUpdateRejected ==
    [][ LET r == response'
            cm == TargetMonth(r)
        IN  (/\ r.kind \in UpdateKinds
             /\ cm # <<>>
             /\ r.request.user.role = "admin"
             /\ GateBlocks(cm[1].clientId, "admin")) =>
              Rejected(r) /\ UNCHANGED FinancialTables ]_vars

\* the rows of the tables, each with the number of its table
RowsOf(tables) ==
    UNION {{<<k, tables[k][i]>> : i \in 1..Len(tables[k])} : k \in 1..Len(tables)}

\* the financial rows of a client, given the tables
ClientRows(months, tables, clientId) ==
    LET ids == {months[i].id : i \in {j \in 1..Len(months) :
                                          months[j].clientId = clientId}}
    IN  {p \in RowsOf(tables) : p[2].clientMonthId \in ids}

\* C13: a bulk update by an admin writes no financial row for a selected
\* client the gate blocks and does not count that client in updatedCount.
C13_BulkSkipsBlockedClients ==
    [][ LET r == response'
        IN  (r.kind = "POST /api/bulk-updates" /\ r.request.user.role = "admin"
             /\ r.status = 200) =>
              LET selected == Range(r.request.clientIds)
                  blocked == {c \in selected : GateBlocks(c, "admin")}
              IN  /\ \A c \in blocked :
                        ClientRows(clientMonths', FinancialTables', c)
                            = ClientRows(clientMonths, FinancialTables, c)
                  /\ r.updatedCount <= Cardinality(selected \ blocked) ]_vars

(***************************************************************************)
(* One bulk update against a stored state in which every client has at     *)
(* most one client month, locked or not, in one of two periods.            *)
(***************************************************************************)
BulkMonthChoices ==
    {<<>>} \cup {<<[period |-> PeriodSeq[k], isLocked |-> l]>> :
                    k \in {1, 2}, l \in BOOLEAN}

InitBulk ==
    \E monthOf \in [ClientIds -> BulkMonthChoices], hasRows \in BOOLEAN :
        LET months == lockMonthsFrom(monthOf, NumClients)
            n == Len(months)
        IN  /\ clients = InitClients
            /\ clientMonths = months
            /\ housingSupports =
                   IF hasRows THEN rowsForMonths(months, n + 1, "amount") ELSE <<>>
            /\ rentPayments =
                   IF hasRows THEN rowsForMonths(months, 2 * n + 1, "paidAmount") ELSE <<>>
            /\ lthPayments =
                   IF hasRows THEN rowsForMonths(months, 3 * n + 1, "amount") ELSE <<>>
            /\ expenses =
                   IF hasRows THEN rowsForMonths(months, 4 * n + 1, "amount") ELSE <<>>
            /\ clientDocuments = <<>>
            /\ auditLogs = <<>>
            /\ clientHistories = <<>>
            /\ nextId = IF hasRows THEN 5 * n + 1 ELSE n + 1
            /\ now = FirstInstant
            /\ faults = {}
            /\ response = [kind |-> "none"]

NextBulk == Fresh /\ PostBulkUpdates

SpecBulk == InitBulk /\ [][NextBulk]_vars

\* the amount the request carries for a client; 0 when it carries none
RequestedAmount(request, clientId) ==
    IF request.useUniformAmount THEN request.amount
    ELSE IF clientId \in DOMAIN request.clientAmounts
    THEN request.clientAmounts[clientId] ELSE 0

\* the stored month of a client for the request's period is locked
LockedFor(request, clientId) ==
    \E i \in 1..Len(clientMonths) :
        /\ clientMonths[i].clientId = clientId
        /\ clientMonths[i].year = request.year
        /\ clientMonths[i].month = request.month
        /\ clientMonths[i].isLocked

TypeTable(tables, financialType) ==
    CASE financialType = "housing_support" -> tables[1]
      [] financialType = "rent" -> tables[2]
      [] financialType = "lth" -> tables[3]
      [] financialType = "expense" -> tables[4]

AmountField(financialType) ==
    IF financialType = "rent" THEN "paidAmount" ELSE "amount"

\* after the request, the client's month of the period carries a row of the
\* request's type with the requested amount
WrittenFor(request, clientId) ==
    \E i \in 1..Len(clientMonths') :
        /\ clientMonths'[i].clientId = clientId
        /\ clientMonths'[i].year = request.year
        /\ clientMonths'[i].month = request.month
        /\ LET table == TypeTable(FinancialTables', request.financialType)
           IN  \E j \in 1..Len(table) :
                 /\ table[j].clientMonthId = clientMonths'[i].id
                 /\ table[j][AmountField(request.financialType)]
                        = <<RequestedAmount(request, clientId)>>

\* C14: in a bulk update a selected client whose month of the period is
\* locked is passed over for an admin (none of its financial rows is created
\* or changed) and written for a super_admin; the request succeeds, and
\* updatedCount is the number of selected clients that were written.
C14_BulkLockedSkipped ==
    [][ LET r == response'
        IN  (/\ r.kind = "POST /api/bulk-updates"
             /\ r.request.clientIds # <<>>
             /\ UnknownClient \notin Range(r.request.clientIds)) =>
              LET request == r.request
                  selected == {c \in Range(request.clientIds) :
                                  RequestedAmount(request, c) # 0}
                  skipped == {c \in selected :
                                  LockedFor(request, c) /\ request.user.role = "admin"}
              IN  /\ r.status = 200
                  /\ \A c \in skipped :
                        ClientRows(clientMonths', FinancialTables', c)
                            = ClientRows(clientMonths, FinancialTables, c)
                  /\ \A c \in selected \ skipped : WrittenFor(request, c)
                  /\ r.updatedCount = Cardinality(selected \ skipped) ]_vars

\* an admin's bulk update wrote one client and passed over another whose
\* month is locked
C14_Witness ==
    /\ response.kind = "POST /api/bulk-updates"
    /\ response.status = 200
    /\ response.request.user.role = "admin"
    /\ Len(response.request.clientIds) > 1
    /\ response.updatedCount = Len(response.request.clientIds) - 1
    /\ \E i \in 1..Len(clientMonths) :
         /\ clientMonths[i].isLocked
         /\ clientMonths[i].year = response.request.year
         /\ clientMonths[i].month = response.request.month
         /\ clientMonths[i].clientId \in Range(response.request.clientIds)
         /\ RequestedAmount(response.request, clientMonths[i].clientId) # 0

\* C15: a failure while one client of a bulk update is processed does not
\* abort the batch: every other selected client is written and the response
\* reports success with the number of clients written.
C15_BulkFailureIsolated ==
    [][ LET r == response'
        IN  (/\ r.kind = "POST /api/bulk-updates"
             /\ UnknownClient \in Range(r.request.clientIds)) =>
              LET request == r.request
                  others == {c \in Range(request.clientIds) \ {UnknownClient} :
                                /\ RequestedAmount(request, c) # 0
                                /\ ~(LockedFor(request, c)
                                     /\ request.user.role = "admin")}
              IN  /\ r.status = 200
                  /\ \A c \in others : WrittenFor(request, c)
                  /\ r.updatedCount = Cardinality(others) ]_vars

(***************************************************************************)
(* Uniqueness of the aggregation keys                                      *)
(***************************************************************************)
\* C16: there is at most one client month per (clientId, year, month).
C16_UniqueClientMonth ==
    \A i, j \in 1..Len(clientMonths) :
        (/\ clientMonths[i].clientId = clientMonths[j].clientId
         /\ clientMonths[i].year = clientMonths[j].year
         /\ clientMonths[i].month = clientMonths[j].month) => i = j

\* C17: every client month has at most one housing-support row and at most
\* one rent-payment row.
C17_OneSupportAndRentPerMonth ==
    /\ \A i, j \in 1..Len(housingSupports) :
          housingSupports[i].clientMonthId = housingSupports[j].clientMonthId => i = j
    /\ \A i, j \in 1..Len(rentPayments) :
          rentPayments[i].clientMonthId = rentPayments[j].clientMonthId => i = j

(***************************************************************************)
(* GET /api/reports and GET /api/clients/:clientId/yearly-financials       *)
(***************************************************************************)
\* the loop `for (const cm of yearMonths)` of the report
RECURSIVE reportMonths(_, _, _)
reportMonths(acc, yearMonths, i) ==
    IF i > Len(yearMonths) THEN acc
    ELSE LET cm == yearMonths[i]
             hs == getHousingSupport(cm.id)
             rent == getRentPayment(cm.id)
             exps == getExpenses(cm.id)
         IN  reportMonths(
                 [totalHousingSupport |->
                      acc.totalHousingSupport
                      + (IF hs # <<>> THEN parseFloatOrZero(hs[1].amount) ELSE 0),
                  totalRentPaid |->
                      acc.totalRentPaid
                      + (IF rent # <<>> THEN parseFloatOrZero(rent[1].paidAmount) ELSE 0),
                  totalExpenses |->
                      acc.totalExpenses + reduceAmounts(exps, 1, 0)],
                 yearMonths, i + 1)

reportRow(client, query) ==
    LET yearMonths == SelectSeq(getClientMonths(client.id),
                                LAMBDA cm : cm.year = query.year)
        totals == reportMonths([totalHousingSupport |-> 0, totalRentPaid |-> 0,
                                totalExpenses |-> 0], yearMonths, 1)
        hasRentOrExpenses == totals.totalRentPaid > 0 \/ totals.totalExpenses > 0
    IN  [clientId |-> client.id,
         county |-> client.countyId,
         totalHousingSupport |-> totals.totalHousingSupport,
         totalRentPaid |-> totals.totalRentPaid,
         totalExpenses |-> totals.totalExpenses,
         poolFund |-> IF totals.totalHousingSupport > 0 /\ hasRentOrExpenses
                      THEN totals.totalHousingSupport
                           - (totals.totalRentPaid + totals.totalExpenses)
                      ELSE 0]

reports(query) ==
    LET filtered == IF query.county # NoCounty /\ query.county # "all"
                    THEN SelectSeq(getClients, LAMBDA c : c.countyId = query.county)
                    ELSE getClients
    IN  [kind |-> "reports", query |-> query, status |-> 200,
         rows |-> [i \in 1..Len(filtered) |-> reportRow(filtered[i], query)]]

\* one pass of `for (let month = 1; month <= 12; month++)`
yearlyMonth(yearMonths, year, month) ==
    LET clientMonth == First(SelectSeq(yearMonths, LAMBDA cm : cm.month = month))
        hs == IF clientMonth # <<>> THEN getHousingSupport(clientMonth[1].id) ELSE <<>>
        rent == IF clientMonth # <<>> THEN getRentPayment(clientMonth[1].id) ELSE <<>>
        exps == IF clientMonth # <<>> THEN getExpenses(clientMonth[1].id) ELSE <<>>
        housingSupport == IF hs # <<>> THEN parseFloatOrZero(hs[1].amount) ELSE 0
        rentPaid == IF rent # <<>> THEN parseFloatOrZero(rent[1].paidAmount) ELSE 0
        totalExpenses == IF Len(exps) > 0 THEN reduceAmounts(exps, 1, 0) ELSE 0
        hasRentOrExpenses == rentPaid > 0 \/ totalExpenses > 0
    IN  [month |-> month,
         year |-> year,
         clientMonthId |-> IF clientMonth # <<>> THEN <<clientMonth[1].id>> ELSE <<>>,
         isLocked |-> IF clientMonth # <<>> THEN clientMonth[1].isLocked ELSE FALSE,
         housingSupport |-> housingSupport,
         rentPaid |-> rentPaid,
         totalExpenses |-> totalExpenses,
         remainingBalance |-> housingSupport - rentPaid - totalExpenses,
         poolFund |-> IF housingSupport > 0 /\ hasRentOrExpenses
                      THEN housingSupport - (rentPaid + totalExpenses)
                      ELSE 0,
         hasData |-> housingSupport > 0 \/ rentPaid > 0 \/ totalExpenses > 0]

yearlyFinancials(clientId, year) ==
    IF getClient(clientId) = <<>>
    THEN [kind |-> "yearlyFinancials", clientId |-> clientId, year |-> year,
          status |-> 404]
    ELSE LET yearMonths == SelectSeq(getClientMonths(clientId),
                                     LAMBDA cm : cm.year = year)
         IN  [kind |-> "yearlyFinancials", clientId |-> clientId, year |-> year,
              status |-> 200,
              months |-> [month \in 1..12 |-> yearlyMonth(yearMonths, year, month)]]

ReportYears == {PeriodSeq[i][1] : i \in 1..Len(PeriodSeq)}

GetReports ==
    /\ \E year \in ReportYears, county \in {NoCounty, "all", "c1"} :
          response' = reports([year |-> year, county |-> county])
    /\ UNCHANGED stored

GetYearlyFinancials ==
    /\ \E clientId \in ClientIds \cup {UnknownClient}, year \in ReportYears :
          response' = yearlyFinancials(clientId, year)
    /\ UNCHANGED stored

(***************************************************************************)
(* Stored states for the report and the grid: the client months are drawn  *)
(* row by row, so that two rows may carry the same (client, year, month),  *)
(* and a housing support may be negative.                                  *)
(***************************************************************************)
GridHsVals == {-50, 200}

GridMonthData == [key : 1..Len(AllKeys), hs : Opt(GridHsVals), rent : Opt(RentVals),
                  exp : ExpChoices]

RECURSIVE gridExpenseRows(_, _)
gridExpenseRows(data, j) ==
    IF j > Len(data) THEN <<>>
    ELSE [k \in 1..Len(data[j].exp) |->
             [clientMonthId |-> j, amount |-> <<data[j].exp[k]>>]]
         \o gridExpenseRows(data, j + 1)

InitGrid ==
    \E n \in 0..MaxClientMonths :
        \E data \in [1..n -> GridMonthData] :
            LET js == [j \in 1..n |-> j]
                hsJs == SelectSeq(js, LAMBDA j : data[j].hs # <<>>)
                rentJs == SelectSeq(js, LAMBDA j : data[j].rent # <<>>)
                exps == gridExpenseRows(data, 1)
            IN  /\ clients = InitClients
                /\ clientMonths =
                       [j \in 1..n |->
                           [id |-> j,
                            clientId |-> AllKeys[data[j].key].clientId,
                            year |-> AllKeys[data[j].key].period[1],
                            month |-> AllKeys[data[j].key].period[2],
                            isLocked |-> FALSE]]
                /\ housingSupports =
                       [k \in 1..Len(hsJs) |->
                           [id |-> n + k, clientMonthId |-> hsJs[k],
                            amount |-> data[hsJs[k]].hs]]
                /\ rentPayments =
                       [k \in 1..Len(rentJs) |->
                           [id |-> n + Len(hsJs) + k, clientMonthId |-> rentJs[k],
                            paidAmount |-> data[rentJs[k]].rent]]
                /\ expenses =
                       [k \in 1..Len(exps) |->
                           [id |-> n + Len(hsJs) + Len(rentJs) + k] @@ exps[k]]
                /\ nextId = n + Len(hsJs) + Len(rentJs) + Len(exps) + 1
    /\ lthPayments = <<>>
    /\ clientDocuments = <<>>
    /\ auditLogs = <<>>
    /\ clientHistories = <<>>
    /\ now = FirstInstant
    /\ faults = {}
    /\ response = [kind |-> "none"]

NextGrid ==
    \/ GetReports
    \/ GetYearlyFinancials

SpecGrid == InitGrid /\ [][NextGrid]_vars

\* the report row of a client for a year, all counties
ReportRowOf(clientId, year) ==
    LET rows == reports([year |-> year, county |-> "all"]).rows
        i == CHOOSE j \in 1..Len(rows) : rows[j].clientId = clientId
    IN  rows[i]

\* C18: for every client and year, the 12 month rows of the yearly grid sum
\* to the client's totals in the report for that year, for housing support,
\* rent paid and expenses.
C18_GridSumsToReport ==
    (response.kind = "yearlyFinancials" /\ response.status = 200) =>
        LET row == ReportRowOf(response.clientId, response.year)
            m == response.months
        IN  /\ SumFn([k \in 1..12 |-> m[k].housingSupport], 1..12)
                   = row.totalHousingSupport
            /\ SumFn([k \in 1..12 |-> m[k].rentPaid], 1..12) = row.totalRentPaid
            /\ SumFn([k \in 1..12 |-> m[k].totalExpenses], 1..12) = row.totalExpenses

\* C19: in the yearly grid hasData is true exactly when one of the month's
\* housing support, rent paid or total expenses is nonzero, and a month with
\* no client month carries three zero amounts and hasData false.
C19_HasDataIffNonzero ==
    (response.kind = "yearlyFinancials" /\ response.status = 200) =>
        \A k \in 1..12 :
            LET m == response.months[k]
            IN  /\ m.hasData <=> (m.housingSupport # 0 \/ m.rentPaid # 0
                                   \/ m.totalExpenses # 0)
                /\ m.clientMonthId = <<>> =>
                       /\ m.housingSupport = 0
                       /\ m.rentPaid = 0
                       /\ m.totalExpenses = 0
                       /\ ~m.hasData

(***************************************************************************)
(* History and audit entries of the financial mutations                    *)
(***************************************************************************)
\* the amount column of a row of table k of FinancialTables
AmountOf(p) == IF p[1] = 2 THEN p[2].paidAmount ELSE p[2].amount

\* C20: every request that creates, changes or deletes a financial row
\* appends, for each such row, an audit entry with the old and the new
\* snapshot of the row and a history entry for the row's client with the old
\* and the new amount.
C20_MutationsLogged ==
    [][ LET before == RowsOf(FinancialTables)
            after == RowsOf(FinancialTables')
            newAudit == {auditLogs'[i] : i \in (Len(auditLogs) + 1)..Len(auditLogs')}
            newHistory == {clientHistories'[i] :
                              i \in (Len(clientHistories) + 1)..Len(clientHistories')}
            OldOf(p) == {q \in before : q[1] = p[1] /\ q[2].id = p[2].id}
            ClientOf(p) ==
                LET i == CHOOSE j \in 1..Len(clientMonths') :
                            clientMonths'[j].id = p[2].clientMonthId
                IN  clientMonths'[i].clientId
            written == after \ before
            deleted == {p \in before :
                           ~\E q \in after : q[1] = p[1] /\ q[2].id = p[2].id}
        IN  /\ \A p \in written :
                 /\ \E a \in newAudit :
                       /\ a.newData = <<p[2]>>
                       /\ a.oldData = IF OldOf(p) = {} THEN <<>>
                                      ELSE <<(CHOOSE q \in OldOf(p) : TRUE)[2]>>
                 /\ \E h \in newHistory :
                       /\ h.clientId = ClientOf(p)
                       /\ h.newValue = dollar(AmountOf(p))
                       /\ h.oldValue = IF OldOf(p) = {} THEN <<>>
                                       ELSE dollar(AmountOf(CHOOSE q \in OldOf(p) : TRUE))
            /\ \A p \in deleted :
                 /\ \E a \in newAudit : a.oldData = <<p[2]>> /\ a.newData = <<>>
                 /\ \E h \in newHistory :
                       /\ h.clientId = ClientOf(p)
                       /\ h.oldValue = dollar(AmountOf(p))
                       /\ h.newValue = <<>> ]_vars

(***************************************************************************)
(* One financial request against a stored state in which the inserts into  *)
(* audit_logs or client_histories throw.                                   *)
(***************************************************************************)
FaultOps == {"createAuditLog", "createClientHistory"}

\* a client has no month, or one month of the first period, locked or not
FaultMonthChoices ==
    {<<>>} \cup {<<[period |-> PeriodSeq[1], isLocked |-> l]>> : l \in BOOLEAN}

InitFault ==
    \E monthOf \in [ClientIds -> FaultMonthChoices], hasRows \in BOOLEAN,
       fs \in SUBSET FaultOps :
        LET months == lockMonthsFrom(monthOf, NumClients)
            n == Len(months)
        IN  /\ clients = InitClients
            /\ clientMonths = months
            /\ housingSupports =
                   IF hasRows THEN rowsForMonths(months, n + 1, "amount") ELSE <<>>
            /\ rentPayments =
                   IF hasRows THEN rowsForMonths(months, 2 * n + 1, "paidAmount") ELSE <<>>
            /\ lthPayments =
                   IF hasRows THEN rowsForMonths(months, 3 * n + 1, "amount") ELSE <<>>
            /\ expenses =
                   IF hasRows THEN rowsForMonths(months, 4 * n + 1, "amount") ELSE <<>>
            /\ clientDocuments = <<>>
            /\ auditLogs = <<>>
            /\ clientHistories = <<>>
            /\ nextId = IF hasRows THEN 5 * n + 1 ELSE n + 1
            /\ now = FirstInstant
            /\ faults = fs
            /\ response = [kind |-> "none"]

NextFault ==
    \/ Fresh /\ PostHousingSupports
    \/ Fresh /\ PatchHousingSupports
    \/ Fresh /\ PostRentPayments
    \/ Fresh /\ PatchRentPayments
    \/ Fresh /\ PostLthPayments
    \/ Fresh /\ PatchLthPayments
    \/ Fresh /\ PostExpenses
    \/ Fresh /\ PatchExpenses
    \/ Fresh /\ DeleteLthPayments
    \/ Fresh /\ DeleteExpenses
    \/ Fresh /\ PostBulkUpdates

SpecFault == InitFault /\ [][NextFault]_vars

DeleteKinds == {"DELETE /api/lth-payments/:id", "DELETE /api/expenses/:id"}

\* the number in FinancialTables of the table a single-record request is about
KindTable(kind) ==
    CASE kind \in {"POST /api/housing-supports", "PATCH /api/housing-supports/:id"} -> 1
      [] kind \in {"POST /api/rent-payments", "PATCH /api/rent-payments/:id"} -> 2
      [] kind \in {"POST /api/lth-payments", "PATCH /api/lth-payments/:id",
                   "DELETE /api/lth-payments/:id"} -> 3
      [] kind \in {"POST /api/expenses", "PATCH /api/expenses/:id",
                   "DELETE /api/expenses/:id"} -> 4

\* C21: when the insert into audit_logs or into client_histories throws, a
\* financial request still does its primary write and answers with success:
\* a create stores its new row and answers 201, an update of a stored row
\* stores the new amount and answers 200, a delete of a stored row removes it
\* and answers 204, and a bulk update over known clients answers 200 and
\* writes every selected client that is not passed over.
C21_LogFailureKeepsMutation ==
    [][ LET r == response'
            k == KindTable(r.kind)
            before == FinancialTables[k]
            after == FinancialTables'[k]
        IN  faults # {} =>
              /\ r.kind \in CreateKinds =>
                   /\ r.status = 201
                   /\ r.body.id \notin ExistingIds(before)
                   /\ r.body.clientMonthId = r.request.clientMonthId
                   /\ AmountOf(<<k, r.body>>) = <<r.request.amount>>
                   /\ after = Append(before, r.body)
              /\ (r.kind \in UpdateKinds /\ r.request.id \in ExistingIds(before)) =>
                   /\ r.status = 200
                   /\ AmountOf(<<k, getRowById(after, r.request.id)[1]>>)
                          = <<r.request.amount>>
              /\ (r.kind \in DeleteKinds /\ r.request.id \in ExistingIds(before)) =>
                   /\ r.status = 204
                   /\ r.request.id \notin ExistingIds(after)
              /\ (r.kind = "POST /api/bulk-updates"
                    /\ r.request.clientIds # <<>>
                    /\ Range(r.request.clientIds) \subseteq ClientIds) =>
                   /\ r.status = 200
                   /\ \A c \in Range(r.request.clientIds) :
                        (/\ RequestedAmount(r.request, c) # 0
                         /\ ~(LockedFor(r.request, c) /\ r.request.user.role = "admin"))
                            => WrittenFor(r.request, c) ]_vars

\* a housing-support row was created and answered with 201 although neither
\* the audit entry nor the history entry could be written
C21_Witness ==
    /\ faults = FaultOps
    /\ response.kind = "POST /api/housing-supports"
    /\ response.status = 201
    /\ response.body \in Range(housingSupports)
    /\ auditLogs = <<>>
    /\ clientHistories = <<>>

(***************************************************************************)
(* One client request against stored clients with or without a phone and   *)
(* a status override.                                                      *)
(***************************************************************************)
InitClientRows ==
    \E phoneOf \in [ClientIds -> Opt({"", "555"})],
       overrideOf \in [ClientIds -> Opt({"active"})] :
        /\ clients = [i \in 1..NumClients |->
                         [InitClients[i] EXCEPT !.phone = phoneOf[i],
                                                !.statusOverride = overrideOf[i]]]
        /\ clientMonths = <<>>
        /\ housingSupports = <<>>
        /\ rentPayments = <<>>
        /\ lthPayments = <<>>
        /\ expenses = <<>>
        /\ clientDocuments = <<>>
        /\ auditLogs = <<>>
        /\ clientHistories = <<>>
        /\ nextId = 1
        /\ now = FirstInstant
        /\ faults = {}
        /\ response = [kind |-> "none"]

NextClients ==
    \/ Fresh /\ PostClients
    \/ Fresh /\ PatchClients

SpecClients == InitClientRows /\ [][NextClients]_vars

ClientKinds == {"POST /api/clients", "PATCH /api/clients/:id"}

\* C23: a client request by an actor who is not a super_admin leaves no
\* client with a status override it did not have before: every non-null
\* statusOverride after the request is the one the same client had before.
C23_OverrideOnlyBySuperAdmin ==
    [][ LET r == response'
        IN  (r.kind \in ClientKinds /\ r.request.user.role # "super_admin") =>
              \A i \in 1..Len(clients') :
                  clients'[i].statusOverride # <<>> =>
                      /\ i <= Len(clients)
                      /\ clients[i].statusOverride = clients'[i].statusOverride ]_vars

\* the entries a step appends to a log
Appended(before, after) == [i \in 1..(Len(after) - Len(before)) |-> after[Len(before) + i]]

\* C28: a PATCH /api/clients/:id answered with 200 appends exactly one audit
\* entry, of action "update", with the old and the new client row, and
\* appends exactly one history entry for each tracked field whose stored
\* value differs between the old and the new row, and none for a tracked
\* field whose value is the same.
C28_ClientUpdateLogged ==
    [][ LET r == response'
            old == getClient(r.request.id)[1]
            new == r.body
            logs == Appended(auditLogs, auditLogs')
            hist == Appended(clientHistories, clientHistories')
        IN  (r.kind = "PATCH /api/clients/:id" /\ r.status = 200) =>
              /\ Len(logs) = 1
              /\ logs[1].actionType = "update"
              /\ logs[1].oldData = <<old>>
              /\ logs[1].newData = <<new>>
              /\ \A i \in 1..Len(fieldsToCompare) :
                    LET field == fieldsToCompare[i]
                        entries == {j \in 1..Len(hist) :
                                       /\ hist[j].clientId = r.request.id
                                       /\ hist[j].fieldChanged = field.label}
                    IN  Cardinality(entries) =
                            IF old[field.key] # new[field.key] THEN 1 ELSE 0
              /\ Len(hist) <= Len(fieldsToCompare) ]_vars

(***************************************************************************)
(* One writing request against a stored state whose audit log and client   *)
(* history already hold the entries of the creation of client 1.           *)
(***************************************************************************)
InitLog ==
    \E monthOf \in [ClientIds -> FaultMonthChoices], hasRows \in BOOLEAN :
        LET months == lockMonthsFrom(monthOf, NumClients)
            n == Len(months)
            creator == CHOOSE u \in Users : u.role = "super_admin"
        IN  /\ clients = InitClients
            /\ clientMonths = months
            /\ housingSupports =
                   IF hasRows THEN rowsForMonths(months, n + 1, "amount") ELSE <<>>
            /\ rentPayments =
                   IF hasRows THEN rowsForMonths(months, 2 * n + 1, "paidAmount") ELSE <<>>
            /\ lthPayments =
                   IF hasRows THEN rowsForMonths(months, 3 * n + 1, "amount") ELSE <<>>
            /\ expenses =
                   IF hasRows THEN rowsForMonths(months, 4 * n + 1, "amount") ELSE <<>>
            /\ clientDocuments = <<>>
            /\ auditLogs = <<[userId |-> creator.userId, actionType |-> "create",
                              entity |-> "client", entityId |-> <<InitClients[1].id>>,
                              oldData |-> <<>>, newData |-> <<InitClients[1]>>]>>
            /\ clientHistories = <<[clientId |-> InitClients[1].id,
                                    fieldChanged |-> "Client Created",
                                    oldValue |-> <<>>,
                                    newValue |-> <<InitClients[1].fullName>>,
                                    changedBy |-> creator.userId]>>
            /\ nextId = IF hasRows THEN 5 * n + 1 ELSE n + 1
            /\ now = FirstInstant
            /\ faults = {}
            /\ response = [kind |-> "none"]

NextLog ==
    \/ Fresh /\ PostClients
    \/ Fresh /\ PatchClients
    \/ Fresh /\ PostClientMonths
    \/ Fresh /\ PatchClientMonths
    \/ Fresh /\ PostHousingSupports
    \/ Fresh /\ PatchHousingSupports
    \/ Fresh /\ PostRentPayments
    \/ Fresh /\ PatchRentPayments
    \/ Fresh /\ PostLthPayments
    \/ Fresh /\ PatchLthPayments
    \/ Fresh /\ PostExpenses
    \/ Fresh /\ PatchExpenses
    \/ Fresh /\ DeleteLthPayments
    \/ Fresh /\ DeleteExpenses
    \/ Fresh /\ PostBulkUpdates

SpecLog == InitLog /\ [][NextLog]_vars

\* every entry of the log before is, at its place, in the log after
KeptIn(before, after) ==
    /\ Len(before) <= Len(after)
    /\ \A i \in 1..Len(before) : after[i] = before[i]

\* C22: no request modifies or removes an entry of the audit log or of the
\* client history: the entries present before a request are all present,
\* unchanged, after it.
C22_LogsAppendOnly ==
    [][KeptIn(auditLogs, auditLogs') /\ KeptIn(clientHistories, clientHistories')]_vars

\* a request has added an entry to each log next to the entries stored before
C22_Witness ==
    /\ response.kind # "none"
    /\ Len(auditLogs) >= 2
    /\ Len(clientHistories) >= 2

(***************************************************************************)
(* One bulk update, or one read of the current amounts, against the stored *)
(* states of the bulk updates.                                             *)
(***************************************************************************)
NextCurrent ==
    \/ Fresh /\ PostBulkUpdates
    \/ Fresh /\ GetCurrentAmounts

SpecCurrent == InitBulk /\ [][NextCurrent]_vars

\* the current amount of a client for a period and type, read off the given
\* tables: the amount of the first row for housing support and rent, the sum
\* of the rows for expenses and LTH payments
CurrentIn(months, tables, q, clientId) ==
    LET ms == SelectSeq(months, LAMBDA cm : /\ cm.clientId = clientId
                                            /\ cm.year = q.year
                                            /\ cm.month = q.month)
        rows == SelectSeq(TypeTable(tables, q.financialType),
                          LAMBDA row : row.clientMonthId = ms[1].id)
        value(row) == parseFloatOrZero(row[AmountField(q.financialType)])
    IN  IF ms = <<>> \/ rows = <<>>
        THEN [currentAmount |-> 0, hasExistingData |-> FALSE]
        ELSE [currentAmount |->
                  IF q.financialType \in {"housing_support", "rent"}
                  THEN value(rows[1])
                  ELSE SumFn([j \in 1..Len(rows) |-> value(rows[j])], 1..Len(rows)),
              hasExistingData |-> TRUE]

\* C24: GET /api/bulk-updates/current-amounts answers, for every client, the
\* current amount of the stored rows; and when a bulk update of any financial
\* type writes amount X for a client that already had data of that type for
\* the period, the current amount of that client for the period and type
\* after the update is X.
C24_BulkOverwrites ==
    [][ LET r == response'
        IN  /\ (r.kind = "GET /api/bulk-updates/current-amounts" /\ r.status = 200) =>
                 \A c \in ClientIds :
                     r.body[c] = CurrentIn(clientMonths, FinancialTables, r.query, c)
            /\ (r.kind = "POST /api/bulk-updates" /\ r.status = 200) =>
                 \A c \in Range(r.request.clientIds) :
                    (/\ RequestedAmount(r.request, c) # 0
                     /\ ~(LockedFor(r.request, c) /\ r.request.user.role = "admin")
                     /\ CurrentIn(clientMonths, FinancialTables, r.request, c)
                            .hasExistingData)
                        => CurrentIn(clientMonths', FinancialTables', r.request, c)
                               .currentAmount = RequestedAmount(r.request, c) ]_vars

(***************************************************************************)
(* The sums of amounts as the handlers compute them: parseFloat of the     *)
(* numeric(12, 2) column, which the driver returns as a decimal string,    *)
(* and the + of JavaScript numbers (IEEE 754 binary64, round to nearest,   *)
(* ties to even).  A decimal string is held as [units, cents].  A double   *)
(* that is 0 or at least 2^-7 is a multiple of 2^-59; it is held as the    *)
(* natural number d * 2^59, written as Width bits, least significant bit   *)
(* first.                                                                  *)
(***************************************************************************)
MaxSumRows == 2

Precision == 53
FracBits == 59
Width == 66
CentsPerUnit == 100

Decimal(units, cents) == [units |-> units, cents |-> cents]

DecimalAmounts ==
    {Decimal(0, 10), Decimal(0, 20), Decimal(0, 30), Decimal(0, 70),
     Decimal(0, 25), Decimal(0, 50), Decimal(1, 10), Decimal(2, 20)}

zeroBits == [i \in 1..Width |-> 0]

\* the bits of a natural number below 2^31
natToBits(n) ==
    [i \in 1..Width |-> IF i <= 31 THEN (n \div (2 ^ (i - 1))) % 2 ELSE 0]

shiftLeft(b, k) == [i \in 1..Width |-> IF i > k THEN b[i - k] ELSE 0]

\* a carry enters position i when a lower position generates one and every
\* position in between passes it on
carryInto(a, b, i) ==
    \E j \in 1..(i - 1) :
        /\ a[j] + b[j] = 2
        /\ \A k \in (j + 1)..(i - 1) : a[k] + b[k] >= 1

addBits(a, b) ==
    [i \in 1..Width |-> (a[i] + b[i] + (IF carryInto(a, b, i) THEN 1 ELSE 0)) % 2]

\* 2^k modulo m
RECURSIVE powMod(_, _)
powMod(k, m) == IF k = 0 THEN 1 % m ELSE (2 * powMod(k - 1, m)) % m

\* the division of n * 2^k by a small divisor d, for a small n: the bits of
\* the quotient and the remainder.  Bit i of the quotient is the parity of
\* floor(n * 2^(k + 1 - i) / d), read off n * 2^(k + 1 - i) modulo 2 * d.
divScaled(n, k, d) ==
    [q |-> [i \in 1..Width |->
               IF i <= k + 1
               THEN IF ((n % (2 * d)) * powMod(k + 1 - i, 2 * d)) % (2 * d) >= d
                    THEN 1 ELSE 0
               ELSE IF i - k - 1 <= 20
               THEN (n \div (d * (2 ^ (i - k - 1)))) % 2
               ELSE 0],
     r |-> ((n % d) * powMod(k, d)) % d]

bitLength(b) ==
    IF b = zeroBits THEN 0
    ELSE CHOOSE i \in 1..Width : b[i] = 1 /\ \A j \in (i + 1)..Width : b[j] = 0

\* the double nearest to b + r / d (0 <= r < d), ties to the even mantissa
roundToDouble(b, r, d) ==
    LET s == IF bitLength(b) > Precision THEN bitLength(b) - Precision ELSE 0
        kept == [i \in 1..Width |-> IF i > s THEN b[i] ELSE 0]
        odd == b[s + 1] = 1
        roundUp ==
            IF s = 0
            THEN 2 * r > d \/ (2 * r = d /\ odd)
            ELSE /\ b[s] = 1
                 /\ \/ r > 0
                    \/ \E i \in 1..(s - 1) : b[i] = 1
                    \/ odd
    IN  IF roundUp THEN addBits(kept, shiftLeft(natToBits(1), s)) ELSE kept

\* parseFloat("units.cents")
parseFloat(str) ==
    LET cents == str.units * CentsPerUnit + str.cents
        x == divScaled(cents, FracBits, CentsPerUnit)
    IN  roundToDouble(x.q, x.r, CentsPerUnit)

\* a + b of two numbers
floatAdd(a, b) == roundToDouble(addBits(a, b), 0, 1)

\* the + of exact decimal arithmetic
decimalAdd(a, b) ==
    LET cents == (a.units + b.units) * CentsPerUnit + a.cents + b.cents
    IN  Decimal(cents \div CentsPerUnit, cents % CentsPerUnit)

\* expenses.reduce((sum, e) => sum + parseFloat(e.amount || "0"), 0)
RECURSIVE reduceFloat(_, _, _)
reduceFloat(rows, i, sum) ==
    IF i > Len(rows) THEN sum
    ELSE reduceFloat(rows, i + 1, floatAdd(sum, parseFloat(rows[i].amount[1])))

\* the total of the expenses of one client month, as every aggregation
\* (dashboard, report, pool-fund summary, yearly grid) computes it
SumExpenses ==
    /\ \E clientMonthId \in ExistingIds(clientMonths) :
          response' = [kind |-> "expenses.reduce", clientMonthId |-> clientMonthId,
                       totalExpenses |->
                           reduceFloat(getExpenses(clientMonthId), 1, zeroBits)]
    /\ UNCHANGED stored

RECURSIVE AmountLists(_)
AmountLists(n) ==
    IF n = 0 THEN {<<>>}
    ELSE AmountLists(n - 1)
         \cup {Append(l, a) : l \in {m \in AmountLists(n - 1) : Len(m) = n - 1},
                              a \in DecimalAmounts}

InitSum ==
    \E amounts \in AmountLists(MaxSumRows) :
        /\ clients = InitClients
        /\ clientMonths = <<[id |-> 1, clientId |-> 1, year |-> PeriodSeq[1][1],
                             month |-> PeriodSeq[1][2], isLocked |-> FALSE]>>
        /\ housingSupports = <<>>
        /\ rentPayments = <<>>
        /\ lthPayments = <<>>
        /\ expenses = [i \in 1..Len(amounts) |->
                          [id |-> i + 1, clientMonthId |-> 1, amount |-> <<amounts[i]>>]]
        /\ clientDocuments = <<>>
        /\ auditLogs = <<>>
        /\ clientHistories = <<>>
        /\ nextId = Len(amounts) + 2
        /\ now = FirstInstant
        /\ faults = {}
        /\ response = [kind |-> "none"]

NextSum == Fresh /\ SumExpenses

SpecSum == InitSum /\ [][NextSum]_vars

\* the exact decimal sum of the amounts of the rows
RECURSIVE DecimalSum(_, _)
DecimalSum(rows, i) ==
    IF i > Len(rows) THEN Decimal(0, 0)
    ELSE decimalAdd(rows[i].amount[1], DecimalSum(rows, i + 1))

\* C25: the total of a list of expense amounts with two decimal digits is
\* the exact decimal sum of the amounts: the number computed is the number
\* that the decimal sum denotes.
C25_SumsExact ==
    response.kind = "expenses.reduce" =>
        response.totalExpenses
            = parseFloat(DecimalSum(getExpenses(response.clientMonthId), 1))

\* the request was made by an authenticated super_admin
BySuperAdmin(r) == "user" \in DOMAIN r.request /\ r.request.user.role = "super_admin"

\* C26: a request that is not made by a super_admin never unlocks a client
\* month: every month that is locked before the request is locked after it.
C26_LockedStaysLocked ==
    [][ ~BySuperAdmin(response') =>
           \A i \in 1..Len(clientMonths) :
               clientMonths[i].isLocked =>
                   /\ i <= Len(clientMonths')
                   /\ clientMonths'[i].id = clientMonths[i].id
                   /\ clientMonths'[i].isLocked ]_vars

\* C27: for every client and year whose client months are one per period,
\* the poolFund of the client's report row is the sum of the 12 monthly
\* poolFund values of the yearly grid.
C27_ReportPoolFundIsGridSum ==
    (/\ response.kind = "yearlyFinancials"
     /\ response.status = 200
     /\ C16_UniqueClientMonth) =>
        SumFn([k \in 1..12 |-> response.months[k].poolFund], 1..12)
            = ReportRowOf(response.clientId, response.year).poolFund

(***************************************************************************)
(* The client list and its service-agreement status.  In this section the  *)
(* clock and the expiry dates count hours, so that an instant can fall     *)
(* inside the day of an expiry date: the gate compares two instants and is *)
(* the same in any unit, the list divides their difference by the length   *)
(* of a day.                                                               *)
(***************************************************************************)
HoursPerDay == 24

\* Math.ceil(x / d) for an integer x and a positive d
ceilDiv(x, d) == -((-x) \div d)

\* the object GET /api/clients returns for one client
enrichClient(client) ==
    LET docs == getClientDocuments(client.id)
        saDocs == SelectSeq(docs, LAMBDA d : d.documentType = "SERVICE_AGREEMENT")
        saDocsWithExpiry == SelectSeq(saDocs, LAMBDA d : d.expiryDate # <<>>)
        latestSa == sortByExpiry(saDocsWithExpiry, 1, <<>>)[1]
        expiry == latestSa.expiryDate[1]
        daysUntilExpiry == ceilDiv(expiry - now, HoursPerDay)
        dated == saDocs # <<>> /\ saDocsWithExpiry # <<>>
        saStatus ==
            IF saDocs = <<>> THEN "suspended"
            ELSE IF saDocsWithExpiry = <<>> THEN "active"
            ELSE IF daysUntilExpiry < 0 THEN "expired"
            ELSE "active"
    IN  [client |-> client,
         saStatus |-> IF client.statusOverride = <<"active">> /\ saStatus # "active"
                      THEN "override_active" ELSE saStatus,
         saExpiryDate |-> IF dated THEN <<expiry>> ELSE <<>>,
         saDaysRemaining |-> IF dated THEN <<daysUntilExpiry>> ELSE <<>>]

GetClients ==
    /\ response' = [kind |-> "GET /api/clients", status |-> 200,
                    body |-> [i \in 1..Len(clients) |-> enrichClient(clients[i])]]
    /\ UNCHANGED stored

\* midnight of an expiry day, and instants before it, within the day that
\* starts at it, and more than a day after it
ExpiryHours == {e * HoursPerDay : e \in ExpiryDates}
StatusInstants ==
    UNION {{e - HoursPerDay, e, e + 10, e + HoursPerDay, e + HoursPerDay + 10} :
              e \in ExpiryHours}

inHours(docs) ==
    [i \in 1..Len(docs) |->
        [docs[i] EXCEPT !.expiryDate =
            IF @ = <<>> THEN <<>> ELSE <<@[1] * HoursPerDay>>]]

InitStatus ==
    \E docsOf \in [ClientIds -> DocLists],
       overrideOf \in [ClientIds -> Opt({"active"})], t \in StatusInstants :
        /\ clients = [i \in 1..NumClients |->
                         [InitClients[i] EXCEPT !.statusOverride = overrideOf[i]]]
        /\ clientDocuments = inHours(docRowsFrom(docsOf, NumClients))
        /\ clientMonths = [i \in 1..NumClients |->
                              [id |-> i, clientId |-> i, year |-> PeriodSeq[1][1],
                               month |-> PeriodSeq[1][2], isLocked |-> FALSE]]
        /\ housingSupports = <<>>
        /\ rentPayments = <<>>
        /\ lthPayments = <<>>
        /\ expenses = <<>>
        /\ auditLogs = <<>>
        /\ clientHistories = <<>>
        /\ nextId = NumClients + Len(clientDocuments) + 1
        /\ now = t
        /\ faults = {}
        /\ response = [kind |-> "none"]

NextStatus ==
    \/ Fresh /\ GetClients
    \/ Fresh /\ PostHousingSupports

SpecStatus == InitStatus /\ [][NextStatus]_vars

\* the client has no service agreement document
AgreementAbsent(clientId) ==
    \A j \in 1..Len(clientDocuments) :
        clientDocuments[j].clientId = clientId =>
            clientDocuments[j].documentType # "SERVICE_AGREEMENT"

\* the latest expiry date of the client's service agreements is past
AgreementExpired(clientId) ==
    SaExpiries(clientId) # {} /\ LatestExpiry(clientId) < now

\* C29: in the answer of GET /api/clients a client's saStatus is "expired"
\* exactly when the gate blocks an admin's mutation for that client, and
\* "override_active" exactly when the client's agreement is expired or
\* absent and its statusOverride is "active".
C29_ListStatusMatchesGate ==
    (response.kind = "GET /api/clients" /\ response.status = 200) =>
        \A i \in 1..Len(response.body) :
            LET row == response.body[i]
                id == row.client.id
            IN  /\ (row.saStatus = "expired") <=> isServiceAgreementBlocked(id, "admin")
                /\ (row.saStatus = "override_active") <=>
                       /\ StatusOverrideOf(id) = <<"active">>
                       /\ AgreementExpired(id) \/ AgreementAbsent(id)


(***************************************************************************)
(* Deleting a financial row                                                *)
(***************************************************************************)
\* the row a delete request is about, in the state the request is served
\* from; <<>> when there is none
DeletedRow(r) == getRowById(FinancialTables[KindTable(r.kind)], r.request.id)

\* C30: a delete request for an expense or an LTH payment whose client month
\* is locked, or whose client the gate blocks, is rejected and leaves the
\* row in its table when the actor is an admin; a super_admin's delete
\* request removes the row.
C30_DeleteGuarded ==
    [][ LET r == response'
            row == DeletedRow(r)
            cm == getClientMonth(row[1].clientMonthId)
        IN  (r.kind \in DeleteKinds /\ row # <<>> /\ cm # <<>>) =>
              IF r.request.user.role = "admin"
              THEN (cm[1].isLocked \/ GateBlocks(cm[1].clientId, "admin")) =>
                       Rejected(r) /\ UNCHANGED FinancialTables
              ELSE /\ r.status = 204
                   /\ (FinancialTables')[KindTable(r.kind)] =
                          deleteRow(FinancialTables[KindTable(r.kind)], r.request.id) ]_vars

====
